---- MODULE Spec2Model ----
(***************************************************************************)
(* Matter lifecycle state machine, versioned artifacts, workstream head    *)
(* pointers, claim graph editing and audit log of the certis.api           *)
(* patent-drafting backend.                                                *)
(*                                                                         *)
(* Every request handler runs in its own database session: what it writes  *)
(* becomes visible at `await self.db.commit()`, and an exception that      *)
(* leaves the handler before that closes the session and discards the      *)
(* writes (src/database.py get_db).  A request that raises is therefore a  *)
(* step that changes nothing.  For every handler X the operator X_error    *)
(* gives the response to a request in the current state: "ok" or the kind  *)
(* of error raised, the raise conditions taken in the order of the source. *)
(***************************************************************************)
EXTENDS Integers, Sequences, FiniteSets, TLC

\* ---------------------------------------------------------------- bounds
MaxVersions == 5      \* rows over the five version tables
MaxPerKind == 2       \* rows per version table
MaxAudit == 2         \* rows of audit_events

\* ------------------------------------------------------------- constants
Matters == {"m1", "m2"}
\* the matters that receive requests in the lifecycle specification
ActiveMatters == {"m1"}
Kinds == {"brief", "claims", "risk", "spec", "qa"}
\* the request slots of the concurrent specification
Requests == {"r1", "r2"}

\* members of the Python enum MatterState
MatterState ==
    {"CREATED", "BRIEF_ANALYZED", "CLAIMS_PROPOSED", "CLAIMS_APPROVED",
     "RISK_REVIEWED", "SPEC_GENERATED", "QA_COMPLETE", "LOCKED_FOR_EXPORT"}

\* every status name a client or a handler can write down
StatusNames == MatterState \cup {"RISK_RE_REVIEWED"}

\* the enum with the two event types the edit handlers name
AuditEventTypeWithEdits ==
    {"BRIEF_UPLOADED", "BRIEF_APPROVED", "CLAIMS_GENERATED", "CLAIMS_COMMITTED",
     "CLAIMS_EDITED", "RISK_ANALYZED", "RISK_COMMITTED", "SPEC_GENERATED",
     "SPEC_COMMITTED", "SPEC_EDITED", "RISK_RE_EVALUATED",
     "RISK_RE_EVAL_COMMITTED", "QA_VALIDATED", "QA_COMMITTED", "MATTER_LOCKED",
     "EXPORT_GENERATED"}

\* members of the Python enum AuditEventType
AuditEventType ==
    {"BRIEF_UPLOADED", "BRIEF_APPROVED", "CLAIMS_GENERATED", "CLAIMS_COMMITTED",
     "RISK_ANALYZED", "RISK_COMMITTED", "SPEC_GENERATED", "SPEC_COMMITTED",
     "RISK_RE_EVALUATED", "RISK_RE_EVAL_COMMITTED", "QA_VALIDATED",
     "QA_COMMITTED", "MATTER_LOCKED", "EXPORT_GENERATED"}

\* the dict with an entry that reopens a locked matter
valid_transitions_reopening ==
    [s \in MatterState |->
        CASE s = "CREATED" -> {"BRIEF_ANALYZED"}
          [] s = "BRIEF_ANALYZED" -> {"CLAIMS_PROPOSED"}
          [] s = "CLAIMS_PROPOSED" -> {"CLAIMS_APPROVED", "BRIEF_ANALYZED"}
          [] s = "CLAIMS_APPROVED" -> {"RISK_REVIEWED", "SPEC_GENERATED"}
          [] s = "RISK_REVIEWED" -> {"SPEC_GENERATED", "CLAIMS_APPROVED"}
          [] s = "SPEC_GENERATED" -> {"QA_COMPLETE"}
          [] s = "QA_COMPLETE" -> {"LOCKED_FOR_EXPORT", "SPEC_GENERATED"}
          [] s = "LOCKED_FOR_EXPORT" -> {"QA_COMPLETE"}]

\* the dict literal of MatterService.update_status
valid_transitions ==
    [s \in MatterState |->
        CASE s = "CREATED" -> {"BRIEF_ANALYZED"}
          [] s = "BRIEF_ANALYZED" -> {"CLAIMS_PROPOSED"}
          [] s = "CLAIMS_PROPOSED" -> {"CLAIMS_APPROVED", "BRIEF_ANALYZED"}
          [] s = "CLAIMS_APPROVED" -> {"RISK_REVIEWED", "SPEC_GENERATED"}
          [] s = "RISK_REVIEWED" -> {"SPEC_GENERATED", "CLAIMS_APPROVED"}
          [] s = "SPEC_GENERATED" -> {"QA_COMPLETE"}
          [] s = "QA_COMPLETE" -> {"LOCKED_FOR_EXPORT", "SPEC_GENERATED"}
          [] s = "LOCKED_FOR_EXPORT" -> {}]

\* payloads the external agents can return
BriefPayloads == {"brief_data"}
SpecPayloads == {"spec_document"}
RiskPayloads == {[defensibility_score |-> 70]}
QAPayloads ==
    {[can_export |-> TRUE, total_errors |-> 0],
     [can_export |-> FALSE, total_errors |-> 1],
     [can_export |-> TRUE, total_errors |-> 1]}

NoId == 0

\* ClaimNode; a node id is the decimal string of a positive integer and is
\* written as that integer, mirror_source None is NoId
ClaimNode(id, type, category, dependencies, mirror_source) ==
    [id |-> id, type |-> type, text |-> "text", category |-> category,
     dependencies |-> dependencies, mirror_source |-> mirror_source]

\* the graph assembled by the claims agent: ids renumbered 1..N in order,
\* system claims first, then their method mirrors
AgentGraphs ==
    {<<ClaimNode(1, "independent", "system", <<>>, NoId),
       ClaimNode(2, "dependent", "method", <<1>>, 1)>>}

VARIABLES
    status,               \* Matter.status, per matter
    defensibility_score,  \* Matter.defensibility_score, 0 for NULL
    versions,             \* the five *_versions tables; a row's id is its index
                          \* in its own table
    workstreams,          \* the workstreams table
    audit,                \* the audit_events table, in insertion order
    inflight,             \* per request slot: the open database session of a
                          \* request that has read and not yet committed
    graph_data            \* the ClaimGraph a claim edit works on, <<>> outside
                          \* the specification of the graph operations

vars == <<status, defensibility_score, versions, workstreams, audit, inflight, graph_data>>

\* ------------------------------------------------------------- row access
VersionIds(m, k) ==
    {i \in 1..Len(versions[k]) : versions[k][i].matter_id = m}

TotalVersions ==
    Len(versions["brief"]) + Len(versions["claims"]) + Len(versions["risk"])
        + Len(versions["spec"]) + Len(versions["qa"])

\* a lookup by id alone
FindVersion_any_matter(m, k, vid) ==
    IF vid \in 1..Len(versions[k]) THEN vid ELSE NoId

\* select(Model).where(Model.id == version_id, Model.matter_id == matter_id)
FindVersion(m, k, vid) == IF vid \in VersionIds(m, k) THEN vid ELSE NoId

MaxOf(S) == CHOOSE x \in S : \A y \in S : y <= x

\* the next number computed from the number of rows with an authoritative row
\* left out of the count
NextVersionNumber_unflagged(m, k) ==
    Cardinality({i \in VersionIds(m, k) : ~versions[k][i].is_authoritative}) + 1

\* order_by(desc(version_number)).limit(1); next_version = latest + 1 or 1
NextVersionNumber(m, k) ==
    IF VersionIds(m, k) = {} THEN 1
    ELSE MaxOf({versions[k][i].version_number : i \in VersionIds(m, k)}) + 1

\* where(is_authoritative == True).order_by(desc(version_number)).limit(1):
\* the rows this query may return (several only when numbers repeat)
AuthoritativeRows(m, k) ==
    LET flagged == {i \in VersionIds(m, k) : versions[k][i].is_authoritative}
    IN {i \in flagged :
           \A j \in flagged :
               versions[k][j].version_number <= versions[k][i].version_number}

\* a resolution that falls back to the versions of the matter whether or not
\* one is approved
ResolveInput_unapproved(m, k, vid) ==
    IF vid # NoId THEN {FindVersion(m, k, vid)}
    ELSE IF VersionIds(m, k) = {} THEN {NoId}
    ELSE VersionIds(m, k)

\* explicit version id if given, else the latest authoritative version
ResolveInput(m, k, vid) ==
    IF vid # NoId THEN {FindVersion(m, k, vid)}
    ELSE IF AuthoritativeRows(m, k) = {} THEN {NoId}
    ELSE AuthoritativeRows(m, k)

\* the error of a failed resolution, "ok" when a version was found
ResolveError(m, k, vid) ==
    IF ResolveInput(m, k, vid) # {NoId} THEN "ok"
    ELSE IF vid # NoId THEN "NotFound" ELSE "MissingApproval"

NewVersion(m, k, payload, cv, rv, sv) ==
    [matter_id |-> m, version_number |-> NextVersionNumber(m, k),
     is_authoritative |-> FALSE, payload |-> payload,
     claim_version_id |-> cv, risk_version_id |-> rv, spec_version_id |-> sv]

\* select(Workstream).where(matter_id == ...).limit(1): rows it may return
WorkstreamRows(m) ==
    {w \in 1..Len(workstreams) : workstreams[w].matter_id = m}

\* a lookup that finds no workstream
WorkstreamChoice_none(m) == {NoId}

\* workstream = ws_result.scalar_one_or_none(): a row, or NoId for None
WorkstreamChoice(m) == IF WorkstreamRows(m) = {} THEN {NoId} ELSE WorkstreamRows(m)

\* the value of a pointer column: the UUID of a version row.  UUIDs are unique
\* across the tables, so the value names the table of its row with the row's
\* id in that table; NoRef is NULL
VersionRef(k, vid) == [kind |-> k, id |-> vid]
NoRef == VersionRef("none", NoId)

\* `if workstream: workstream.active_<k>_version_id = vid`
SetPointer(ws, w, k, vid) ==
    IF w = NoId THEN ws
    ELSE [ws EXCEPT ![w].active = [@ EXCEPT ![k] = VersionRef(k, vid)]]

NewWorkstream(m) ==
    [matter_id |-> m, active |-> [k \in Kinds |-> NoRef]]

AuditEvent(m, type, vid) ==
    [matter_id |-> m, event_type |-> type, artifact_version_id |-> vid]

\* room left in the bounded tables
CanCreate(m, k) ==
    /\ TotalVersions < MaxVersions
    /\ Len(versions[k]) < MaxPerKind

CanAudit == Len(audit) < MaxAudit

\* a save that writes the row over the latest row of the table
InsertVersion_over_latest(vs, k, row) ==
    [vs EXCEPT ![k] = IF @ = <<>> THEN <<row>> ELSE [@ EXCEPT ![Len(@)] = row]]

\* self.db.add(row); await self.db.flush()
InsertVersion(vs, k, row) == [vs EXCEPT ![k] = Append(@, row)]

\* a commit that also takes the flag from the other rows of the matter
SetAuthoritative_demoting(vs, k, v) ==
    [vs EXCEPT ![k] =
        [i \in 1..Len(@) |->
            IF @[i].matter_id = @[v].matter_id
            THEN [@[i] EXCEPT !.is_authoritative = (i = v)]
            ELSE @[i]]]

\* version.is_authoritative = True
SetAuthoritative(vs, k, v) == [vs EXCEPT ![k][v].is_authoritative = TRUE]

\* a request slot with no request in it
Idle ==
    [pc |-> "idle", op |-> "none", matter_id |-> "none", next_version |-> 0,
     workstream |-> NoId]

\* ------------------------------------------------------------------ Init
Init ==
    /\ status = [m \in Matters |-> "CREATED"]
    /\ defensibility_score = [m \in Matters |-> 0]
    /\ versions = [k \in Kinds |-> <<>>]
    /\ workstreams = <<>>
    /\ audit = <<>>
    /\ inflight = [r \in Requests |-> Idle]
    /\ graph_data = <<>>

\* --------------------------------------------------------------- briefing
process_brief_upload_error(m, agent_ok) ==
    IF ~agent_ok THEN "AgentFailure" ELSE "ok"

\* an upload that saves the version and leaves the matter's status alone
process_brief_upload_keeping_status(m, agent_ok, payload) ==
    IF process_brief_upload_error(m, agent_ok) # "ok" THEN UNCHANGED vars
    ELSE LET vid == Len(versions["brief"]) + 1
             ws1 == IF WorkstreamRows(m) = {}
                    THEN Append(workstreams, NewWorkstream(m))
                    ELSE workstreams
         IN /\ CanCreate(m, "brief")
            /\ versions' = InsertVersion(versions, "brief",
                               NewVersion(m, "brief", payload, NoId, NoId, NoId))
            /\ \E w \in {x \in 1..Len(ws1) : ws1[x].matter_id = m} :
                   workstreams' = SetPointer(ws1, w, "brief", vid)
            /\ UNCHANGED <<status, defensibility_score, audit, inflight, graph_data>>

\* BriefingService.process_brief_upload
process_brief_upload(m, agent_ok, payload) ==
    IF process_brief_upload_error(m, agent_ok) # "ok" THEN UNCHANGED vars
    ELSE LET vid == Len(versions["brief"]) + 1
             ws1 == IF WorkstreamRows(m) = {}
                    THEN Append(workstreams, NewWorkstream(m))
                    ELSE workstreams
         IN /\ CanCreate(m, "brief")
            /\ versions' = InsertVersion(versions, "brief",
                               NewVersion(m, "brief", payload, NoId, NoId, NoId))
            /\ \E w \in {x \in 1..Len(ws1) : ws1[x].matter_id = m} :
                   workstreams' = SetPointer(ws1, w, "brief", vid)
            /\ status' = IF status[m] = "CREATED"
                         THEN [status EXCEPT ![m] = "BRIEF_ANALYZED"]
                         ELSE status
            /\ UNCHANGED <<defensibility_score, audit, inflight, graph_data>>

approve_brief_error(m, version_id) ==
    IF FindVersion(m, "brief", version_id) = NoId THEN "NotFound" ELSE "ok"

\* BriefingService.approve_brief
approve_brief(m, version_id) ==
    IF approve_brief_error(m, version_id) # "ok" THEN UNCHANGED vars
    ELSE LET v == FindVersion(m, "brief", version_id)
         IN /\ versions' = SetAuthoritative(versions, "brief", v)
            /\ \E w \in WorkstreamChoice(m) :
                   workstreams' = SetPointer(workstreams, w, "brief", v)
            /\ UNCHANGED <<status, defensibility_score, audit, inflight, graph_data>>

\* ----------------------------------------------------------------- matter
\* update_status without the membership test on valid_transitions
update_status_error_unchecked(m, new_status) ==
    IF new_status \notin MatterState THEN "ValidationError" ELSE "ok"

\* the `status: MatterState` parameter of update_matter_status rejects a name
\* that is no member of the enum; then the check of MatterService.update_status
update_status_error(m, new_status) ==
    IF new_status \notin MatterState THEN "ValidationError"
    ELSE IF new_status \notin valid_transitions[status[m]] THEN "InvalidTransition"
    ELSE "ok"

\* update_matter_status (router) and MatterService.update_status
update_status(m, new_status) ==
    IF update_status_error(m, new_status) # "ok" THEN UNCHANGED vars
    ELSE /\ status' = [status EXCEPT ![m] = new_status]
         /\ UNCHANGED <<defensibility_score, versions, workstreams, audit, inflight, graph_data>>

\* ----------------------------------------------------------------- claims
generate_claims_error(m, brief_version_id, agent_ok) ==
    IF ResolveError(m, "brief", brief_version_id) # "ok"
    THEN ResolveError(m, "brief", brief_version_id)
    ELSE IF ~agent_ok THEN "AgentFailure" ELSE "ok"

\* DraftingService.generate_claims
generate_claims(m, brief_version_id, agent_ok, graph) ==
    IF generate_claims_error(m, brief_version_id, agent_ok) # "ok"
    THEN UNCHANGED vars
    ELSE LET vid == Len(versions["claims"]) + 1
         IN /\ CanCreate(m, "claims")
            /\ CanAudit
            /\ versions' = InsertVersion(versions, "claims",
                               NewVersion(m, "claims", graph, NoId, NoId, NoId))
            /\ status' = IF status[m] = "BRIEF_ANALYZED"
                         THEN [status EXCEPT ![m] = "CLAIMS_PROPOSED"]
                         ELSE status
            /\ \E w \in WorkstreamChoice(m) :
                   workstreams' = SetPointer(workstreams, w, "claims", vid)
            /\ audit' = Append(audit, AuditEvent(m, "CLAIMS_GENERATED", vid))
            /\ UNCHANGED <<defensibility_score, inflight, graph_data>>

\* a commit that looks its version up by id alone
commit_claims_error_by_id(m, version_id) ==
    IF version_id \notin 1..Len(versions["claims"]) THEN "NotFound" ELSE "ok"

commit_claims_error(m, version_id) ==
    IF FindVersion(m, "claims", version_id) = NoId THEN "NotFound" ELSE "ok"

\* a commit that also advances a matter it finds in BRIEF_ANALYZED
commit_claims_advancing_analyzed(m, version_id) ==
    IF commit_claims_error(m, version_id) # "ok" THEN UNCHANGED vars
    ELSE LET v == FindVersion(m, "claims", version_id)
         IN /\ CanAudit
            /\ versions' = SetAuthoritative(versions, "claims", v)
            /\ status' = IF status[m] = "CLAIMS_PROPOSED"
                         THEN [status EXCEPT ![m] = "CLAIMS_APPROVED"]
                         ELSE IF status[m] = "BRIEF_ANALYZED"
                         THEN [status EXCEPT ![m] = "CLAIMS_PROPOSED"]
                         ELSE status
            /\ \E w \in WorkstreamChoice(m) :
                   workstreams' = SetPointer(workstreams, w, "claims", v)
            /\ audit' = Append(audit, AuditEvent(m, "CLAIMS_COMMITTED", v))
            /\ UNCHANGED <<defensibility_score, inflight, graph_data>>

\* DraftingService.commit_version
commit_claims(m, version_id) ==
    IF commit_claims_error(m, version_id) # "ok" THEN UNCHANGED vars
    ELSE LET v == FindVersion(m, "claims", version_id)
         IN /\ CanAudit
            /\ versions' = SetAuthoritative(versions, "claims", v)
            /\ status' = IF status[m] = "CLAIMS_PROPOSED"
                         THEN [status EXCEPT ![m] = "CLAIMS_APPROVED"]
                         ELSE status
            /\ \E w \in WorkstreamChoice(m) :
                   workstreams' = SetPointer(workstreams, w, "claims", v)
            /\ audit' = Append(audit, AuditEvent(m, "CLAIMS_COMMITTED", v))
            /\ UNCHANGED <<defensibility_score, inflight, graph_data>>

\* ------------------------------------------------------------------- risk
generate_risk_analysis_error(m, claim_version_id, agent_ok) ==
    IF ResolveError(m, "claims", claim_version_id) # "ok"
    THEN ResolveError(m, "claims", claim_version_id)
    ELSE IF ~agent_ok THEN "AgentFailure" ELSE "ok"

\* RiskService.generate_risk_analysis
generate_risk_analysis(m, claim_version_id, agent_ok, analysis) ==
    IF generate_risk_analysis_error(m, claim_version_id, agent_ok) # "ok"
    THEN UNCHANGED vars
    ELSE \E claim \in ResolveInput(m, "claims", claim_version_id) :
         LET vid == Len(versions["risk"]) + 1
         IN /\ CanCreate(m, "risk")
            /\ versions' = InsertVersion(versions, "risk",
                               NewVersion(m, "risk", analysis, claim, NoId, NoId))
            /\ defensibility_score' =
                   [defensibility_score EXCEPT ![m] = analysis.defensibility_score]
            /\ \E w \in WorkstreamChoice(m) :
                   workstreams' = SetPointer(workstreams, w, "risk", vid)
            /\ UNCHANGED <<status, audit, inflight, graph_data>>

re_evaluate_risk_post_spec_error(m, spec_version_id, agent_ok) ==
    IF ResolveError(m, "claims", NoId) # "ok" THEN ResolveError(m, "claims", NoId)
    ELSE IF ResolveError(m, "spec", spec_version_id) # "ok"
    THEN ResolveError(m, "spec", spec_version_id)
    ELSE IF ~agent_ok THEN "AgentFailure" ELSE "ok"

\* RiskService.re_evaluate_risk_post_spec
re_evaluate_risk_post_spec(m, spec_version_id, agent_ok, analysis) ==
    IF re_evaluate_risk_post_spec_error(m, spec_version_id, agent_ok) # "ok"
    THEN UNCHANGED vars
    ELSE \E claim \in ResolveInput(m, "claims", NoId),
            spec \in ResolveInput(m, "spec", spec_version_id) :
         LET vid == Len(versions["risk"]) + 1
         IN /\ CanCreate(m, "risk")
            /\ versions' = InsertVersion(versions, "risk",
                               NewVersion(m, "risk", analysis, claim, NoId, spec))
            /\ defensibility_score' =
                   [defensibility_score EXCEPT ![m] = analysis.defensibility_score]
            /\ \E w \in WorkstreamChoice(m) :
                   workstreams' = SetPointer(workstreams, w, "risk", vid)
            /\ UNCHANGED <<status, audit, inflight, graph_data>>

\* MatterState.RISK_RE_REVIEWED is evaluated only on the SPEC_GENERATED branch
\* and is no member of the enum
commit_risk_error(m, version_id) ==
    IF FindVersion(m, "risk", version_id) = NoId THEN "NotFound"
    ELSE IF status[m] = "SPEC_GENERATED" /\ "RISK_RE_REVIEWED" \notin MatterState
    THEN "AttributeError"
    ELSE "ok"

\* a commit that moves the matter to RISK_REVIEWED from any status
commit_risk_advancing_always(m, version_id) ==
    IF commit_risk_error(m, version_id) # "ok" THEN UNCHANGED vars
    ELSE LET v == FindVersion(m, "risk", version_id)
         IN /\ versions' = SetAuthoritative(versions, "risk", v)
            /\ status' = [status EXCEPT ![m] = "RISK_REVIEWED"]
            /\ \E w \in WorkstreamChoice(m) :
                   workstreams' = SetPointer(workstreams, w, "risk", v)
            /\ UNCHANGED <<defensibility_score, audit, inflight, graph_data>>

\* RiskService.commit_version
commit_risk(m, version_id) ==
    IF commit_risk_error(m, version_id) # "ok" THEN UNCHANGED vars
    ELSE LET v == FindVersion(m, "risk", version_id)
         IN /\ versions' = SetAuthoritative(versions, "risk", v)
            /\ status' = IF status[m] = "CLAIMS_APPROVED"
                         THEN [status EXCEPT ![m] = "RISK_REVIEWED"]
                         ELSE IF status[m] = "SPEC_GENERATED"
                         THEN [status EXCEPT ![m] = "RISK_RE_REVIEWED"]
                         ELSE status
            /\ \E w \in WorkstreamChoice(m) :
                   workstreams' = SetPointer(workstreams, w, "risk", v)
            /\ UNCHANGED <<defensibility_score, audit, inflight, graph_data>>

\* a generation that does not look at the errors of the agent's final state
generate_specification_error_ignoring_agent(m, claim_version_id, risk_version_id, agent_ok) ==
    IF ResolveError(m, "brief", NoId) # "ok" THEN ResolveError(m, "brief", NoId)
    ELSE IF ResolveError(m, "claims", claim_version_id) # "ok"
    THEN ResolveError(m, "claims", claim_version_id)
    ELSE ResolveError(m, "risk", risk_version_id)

\* ---------------------------------------------------------- specification
generate_specification_error(m, claim_version_id, risk_version_id, agent_ok) ==
    IF ResolveError(m, "brief", NoId) # "ok" THEN ResolveError(m, "brief", NoId)
    ELSE IF ResolveError(m, "claims", claim_version_id) # "ok"
    THEN ResolveError(m, "claims", claim_version_id)
    ELSE IF ResolveError(m, "risk", risk_version_id) # "ok"
    THEN ResolveError(m, "risk", risk_version_id)
    ELSE IF ~agent_ok THEN "AgentFailure" ELSE "ok"

\* SpecificationService.generate_specification
generate_specification(m, claim_version_id, risk_version_id, agent_ok, document) ==
    IF generate_specification_error(m, claim_version_id, risk_version_id,
                                    agent_ok) # "ok"
    THEN UNCHANGED vars
    ELSE \E claim \in ResolveInput(m, "claims", claim_version_id),
            risk \in ResolveInput(m, "risk", risk_version_id) :
         LET vid == Len(versions["spec"]) + 1
         IN /\ CanCreate(m, "spec")
            /\ CanAudit
            /\ versions' = InsertVersion(versions, "spec",
                               NewVersion(m, "spec", document, claim, risk, NoId))
            /\ \E w \in WorkstreamChoice(m) :
                   workstreams' = SetPointer(workstreams, w, "spec", vid)
            /\ audit' = Append(audit, AuditEvent(m, "SPEC_GENERATED", vid))
            /\ UNCHANGED <<status, defensibility_score, inflight, graph_data>>

commit_spec_error(m, version_id) ==
    IF FindVersion(m, "spec", version_id) = NoId THEN "NotFound" ELSE "ok"

\* SpecificationService.commit_version
commit_spec(m, version_id) ==
    IF commit_spec_error(m, version_id) # "ok" THEN UNCHANGED vars
    ELSE LET v == FindVersion(m, "spec", version_id)
         IN /\ CanAudit
            /\ versions' = SetAuthoritative(versions, "spec", v)
            /\ status' = IF status[m] = "RISK_REVIEWED"
                         THEN [status EXCEPT ![m] = "SPEC_GENERATED"]
                         ELSE status
            /\ \E w \in WorkstreamChoice(m) :
                   workstreams' = SetPointer(workstreams, w, "spec", v)
            /\ audit' = Append(audit, AuditEvent(m, "SPEC_COMMITTED", v))
            /\ UNCHANGED <<defensibility_score, inflight, graph_data>>

\* _require_spec_editable_matter: building `allowed` evaluates
\* MatterState.RISK_RE_REVIEWED, which is no member of the enum
require_spec_editable_matter_error(m) ==
    IF "RISK_RE_REVIEWED" \notin MatterState THEN "AttributeError"
    ELSE IF status[m] \notin {"RISK_REVIEWED", "SPEC_GENERATED", "RISK_RE_REVIEWED"}
    THEN "NotEditable"
    ELSE "ok"

\* the paragraph endpoints: the guard, the source version, then
\* _clone_and_save_spec_version with its AuditEventType.SPEC_EDITED
edit_spec_error(m, version_id) ==
    IF require_spec_editable_matter_error(m) # "ok"
    THEN require_spec_editable_matter_error(m)
    ELSE IF FindVersion(m, "spec", version_id) = NoId THEN "NotFound"
    ELSE IF "SPEC_EDITED" \notin AuditEventType THEN "AttributeError"
    ELSE "ok"

\* edit_paragraph, add_paragraph, delete_paragraph through
\* SpecificationService._clone_and_save_spec_version
edit_spec(m, version_id, document) ==
    IF edit_spec_error(m, version_id) # "ok" THEN UNCHANGED vars
    ELSE LET src == versions["spec"][FindVersion(m, "spec", version_id)]
             vid == Len(versions["spec"]) + 1
         IN /\ CanCreate(m, "spec")
            /\ CanAudit
            /\ versions' = InsertVersion(versions, "spec",
                               NewVersion(m, "spec", document, src.claim_version_id,
                                          src.risk_version_id, NoId))
            /\ \E w \in WorkstreamChoice(m) :
                   workstreams' = SetPointer(workstreams, w, "spec", vid)
            /\ audit' = Append(audit, AuditEvent(m, "SPEC_EDITED", vid))
            /\ UNCHANGED <<status, defensibility_score, inflight, graph_data>>

\* --------------------------------------------------------------------- QA
run_qa_validation_error(m, claim_version_id, spec_version_id, agent_ok) ==
    IF ResolveError(m, "brief", NoId) # "ok" THEN ResolveError(m, "brief", NoId)
    ELSE IF ResolveError(m, "claims", claim_version_id) # "ok"
    THEN ResolveError(m, "claims", claim_version_id)
    ELSE IF ResolveError(m, "spec", spec_version_id) # "ok"
    THEN ResolveError(m, "spec", spec_version_id)
    ELSE IF ~agent_ok THEN "AgentFailure" ELSE "ok"

\* QAService.run_qa_validation
run_qa_validation(m, claim_version_id, spec_version_id, agent_ok, report) ==
    IF run_qa_validation_error(m, claim_version_id, spec_version_id, agent_ok) # "ok"
    THEN UNCHANGED vars
    ELSE \E claim \in ResolveInput(m, "claims", claim_version_id),
            spec \in ResolveInput(m, "spec", spec_version_id) :
         LET vid == Len(versions["qa"]) + 1
         IN /\ CanCreate(m, "qa")
            /\ versions' = InsertVersion(versions, "qa",
                               NewVersion(m, "qa", report, claim, NoId, spec))
            /\ \E w \in WorkstreamChoice(m) :
                   workstreams' = SetPointer(workstreams, w, "qa", vid)
            /\ UNCHANGED <<status, defensibility_score, audit, inflight, graph_data>>

\* report_data.get("can_export", False)
can_export(report_data) ==
    IF "can_export" \in DOMAIN report_data THEN report_data.can_export ELSE FALSE

\* commit_version without the can_export gate
commit_qa_error_ungated(m, version_id) ==
    IF FindVersion(m, "qa", version_id) = NoId THEN "NotFound"
    ELSE IF "RISK_RE_REVIEWED" \notin MatterState THEN "AttributeError"
    ELSE "ok"

\* after the gate the handler compares the status with
\* MatterState.RISK_RE_REVIEWED, which is no member of the enum
commit_qa_error(m, version_id) ==
    IF FindVersion(m, "qa", version_id) = NoId THEN "NotFound"
    ELSE IF ~can_export(versions["qa"][version_id].payload) THEN "BlockedByErrors"
    ELSE IF "RISK_RE_REVIEWED" \notin MatterState THEN "AttributeError"
    ELSE "ok"

\* QAService.commit_version
commit_qa(m, version_id) ==
    IF commit_qa_error(m, version_id) # "ok" THEN UNCHANGED vars
    ELSE LET v == FindVersion(m, "qa", version_id)
         IN /\ versions' = SetAuthoritative(versions, "qa", v)
            /\ status' = IF status[m] = "RISK_RE_REVIEWED"
                         THEN [status EXCEPT ![m] = "QA_COMPLETE"]
                         ELSE status
            /\ \E w \in WorkstreamChoice(m) :
                   workstreams' = SetPointer(workstreams, w, "qa", v)
            /\ UNCHANGED <<defensibility_score, audit, inflight, graph_data>>

\* ----------------------------------------------------------------- export
lock_for_export_error(m) ==
    IF status[m] # "QA_COMPLETE" THEN "NotQAComplete"
    ELSE IF "LOCKED_FOR_EXPORT" \notin valid_transitions[status[m]]
    THEN "InvalidTransition"
    ELSE "ok"

\* ExportService.lock_for_export: update_status commits the new status, then
\* the MATTER_LOCKED event is added and committed
lock_for_export(m) ==
    IF lock_for_export_error(m) # "ok" THEN UNCHANGED vars
    ELSE /\ CanAudit
         /\ status' = [status EXCEPT ![m] = "LOCKED_FOR_EXPORT"]
         /\ audit' = Append(audit, AuditEvent(m, "MATTER_LOCKED", NoId))
         /\ UNCHANGED <<defensibility_score, versions, workstreams, inflight, graph_data>>

generate_docx_error(m) ==
    IF status[m] # "LOCKED_FOR_EXPORT" THEN "NotLocked" ELSE "ok"

\* an export that keeps only its own event in the log
generate_docx_replacing_log(m) ==
    IF generate_docx_error(m) # "ok" THEN UNCHANGED vars
    ELSE /\ CanAudit
         /\ audit' = <<AuditEvent(m, "EXPORT_GENERATED", NoId)>>
         /\ UNCHANGED <<status, defensibility_score, versions, workstreams, inflight, graph_data>>

\* ExportService.generate_docx
generate_docx(m) ==
    IF generate_docx_error(m) # "ok" THEN UNCHANGED vars
    ELSE /\ CanAudit
         /\ audit' = Append(audit, AuditEvent(m, "EXPORT_GENERATED", NoId))
         /\ UNCHANGED <<status, defensibility_score, versions, workstreams, inflight, graph_data>>

\* ------------------------------------------------------- claim graph edits
NodeIds(nodes) == {nodes[i].id : i \in 1..Len(nodes)}

\* adj = {n.id: list(n.dependencies) for n in nodes}: a later node with the
\* same id replaces an earlier one
adj(nodes) ==
    [nid \in NodeIds(nodes) |->
        nodes[MaxOf({i \in 1..Len(nodes) : nodes[i].id = nid})].dependencies]

RECURSIVE dfs(_, _, _, _), dfs_loop(_, _, _, _, _, _)
\* the closure dfs of _check_circular_dependencies; it returns its result
\* with the sets visited and in_stack as the call leaves them
dfs(a, nid, visited, in_stack) ==
    dfs_loop(a, nid, IF nid \in DOMAIN a THEN a[nid] ELSE <<>>, 1,
             visited \cup {nid}, in_stack \cup {nid})

\* `for dep in adj.get(nid, [])`, from the i-th dependency on
dfs_loop(a, nid, deps, i, visited, in_stack) ==
    IF i > Len(deps)
    THEN [found |-> FALSE, visited |-> visited, in_stack |-> in_stack \ {nid}]
    ELSE IF deps[i] \in in_stack
    THEN [found |-> TRUE, visited |-> visited, in_stack |-> in_stack]
    ELSE IF deps[i] \notin visited
    THEN LET r == dfs(a, deps[i], visited, in_stack)
         IN IF r.found THEN r
            ELSE dfs_loop(a, nid, deps, i + 1, r.visited, r.in_stack)
    ELSE dfs_loop(a, nid, deps, i + 1, visited, in_stack)

RECURSIVE check_loop(_, _, _, _, _)
\* `for nid in node_ids`, from the i-th id of the iteration order on
check_loop(a, order, i, visited, in_stack) ==
    IF i > Len(order) THEN FALSE
    ELSE IF order[i] \in visited THEN check_loop(a, order, i + 1, visited, in_stack)
    ELSE LET r == dfs(a, order[i], visited, in_stack)
         IN IF r.found THEN TRUE
            ELSE check_loop(a, order, i + 1, r.visited, r.in_stack)

RECURSIVE Orders(_)
\* the orders in which a Python set of ids may be iterated
Orders(S) ==
    IF S = {} THEN {<<>>}
    ELSE UNION {{<<x>> \o o : o \in Orders(S \ {x})} : x \in S}

\* a check that sees only the cycles of two nodes
check_circular_dependencies_direct(nodes, order) ==
    \E i, j \in 1..Len(nodes) :
        /\ \E x \in 1..Len(nodes[i].dependencies) :
               nodes[i].dependencies[x] = nodes[j].id
        /\ \E y \in 1..Len(nodes[j].dependencies) :
               nodes[j].dependencies[y] = nodes[i].id

\* a check that searches from the first id of the iteration only
check_circular_dependencies_from_first(nodes, order) ==
    Len(order) > 0 /\ dfs(adj(nodes), order[1], {}, {}).found

\* DraftingService._check_circular_dependencies: TRUE when it raises
check_circular_dependencies(nodes, order) ==
    check_loop(adj(nodes), order, 1, {}, {})

\* EditClaimRequest; fields_set are the fields the request sets
EditClaimRequest(fields_set, type, dependencies) ==
    [fields_set |-> fields_set, text |-> "edited", type |-> type,
     category |-> "system", dependencies |-> dependencies]

\* `for field, value in updates.items(): setattr(target, field, value)`
ApplyUpdates(node, patch) ==
    [f \in DOMAIN node |-> IF f \in patch.fields_set THEN patch[f] ELSE node[f]]

\* next((n for n in graph.nodes if n.id == node_id), None) as an index
FindNode(nodes, node_id) ==
    IF node_id \notin NodeIds(nodes) THEN 0
    ELSE CHOOSE i \in 1..Len(nodes) :
             /\ nodes[i].id = node_id
             /\ \A j \in 1..(i - 1) : nodes[j].id # node_id

\* the graph edit_claim hands to _clone_and_save_version
edit_claim_graph(nodes, node_id, patch) ==
    [i \in 1..Len(nodes) |->
        IF i = FindNode(nodes, node_id) THEN ApplyUpdates(nodes[i], patch)
        ELSE nodes[i]]

\* the validation of edit_claim without its cycle check
edit_claim_validation_no_cycle_check(nodes, node_id, patch, order) ==
    IF FindNode(nodes, node_id) = 0 THEN "NodeNotFound"
    ELSE IF patch.fields_set = {} THEN "NoChange"
    ELSE IF /\ "dependencies" \in patch.fields_set
            /\ \E i \in 1..Len(patch.dependencies) :
                   patch.dependencies[i] \notin NodeIds(nodes)
    THEN "UnknownDependency"
    ELSE IF /\ "dependencies" \in patch.fields_set
            /\ \E i \in 1..Len(patch.dependencies) : patch.dependencies[i] = node_id
    THEN "SelfDependency"
    ELSE "ok"

\* a validation without the test `dep_id == node_id`
edit_claim_validation_allowing_self(nodes, node_id, patch, order) ==
    IF FindNode(nodes, node_id) = 0 THEN "NodeNotFound"
    ELSE IF patch.fields_set = {} THEN "NoChange"
    ELSE IF /\ "dependencies" \in patch.fields_set
            /\ \E i \in 1..Len(patch.dependencies) :
                   patch.dependencies[i] \notin NodeIds(nodes)
    THEN "UnknownDependency"
    ELSE IF check_circular_dependencies(edit_claim_graph(nodes, node_id, patch), order)
    THEN "CircularDependency"
    ELSE "ok"

\* the validation of edit_claim: "ok" or the ValueError raised
edit_claim_validation(nodes, node_id, patch, order) ==
    IF FindNode(nodes, node_id) = 0 THEN "NodeNotFound"
    ELSE IF patch.fields_set = {} THEN "NoChange"
    ELSE IF /\ "dependencies" \in patch.fields_set
            /\ \E i \in 1..Len(patch.dependencies) :
                   /\ \A j \in 1..(i - 1) :
                          /\ patch.dependencies[j] \in NodeIds(nodes)
                          /\ patch.dependencies[j] # node_id
                   /\ patch.dependencies[i] \notin NodeIds(nodes)
    THEN "UnknownDependency"
    ELSE IF /\ "dependencies" \in patch.fields_set
            /\ \E i \in 1..Len(patch.dependencies) : patch.dependencies[i] = node_id
    THEN "SelfDependency"
    ELSE IF check_circular_dependencies(edit_claim_graph(nodes, node_id, patch), order)
    THEN "CircularDependency"
    ELSE "ok"

\* AddClaimRequest
AddClaimRequest(type, dependencies) ==
    [type |-> type, text |-> "added", category |-> "system",
     dependencies |-> dependencies]

\* Node ids are strings.  The id str(n) is modelled by the integer n > 0, and
\* NonNumericId stands for an id such as "A" for which int() raises ValueError.
NonNumericId == -1

\* existing_int_ids: the ids of the graph that int() parses
existing_int_ids(nodes) == {i \in NodeIds(nodes) : i # NonNumericId}

\* str(max(existing_int_ids, default=0) + 1)
next_id(nodes) ==
    IF existing_int_ids(nodes) = {} THEN 1 ELSE MaxOf(existing_int_ids(nodes)) + 1

\* an add that numbers the new node by the count of nodes
add_claim_graph_counting(nodes, request) ==
    Append(nodes,
           [ClaimNode(Len(nodes) + 1, request.type,
                      request.category, request.dependencies, NoId)
               EXCEPT !.text = request.text])

\* the graph add_claim hands to _clone_and_save_version
add_claim_graph(nodes, request) ==
    Append(nodes,
           [ClaimNode(next_id(nodes), request.type,
                      request.category, request.dependencies, NoId)
               EXCEPT !.text = request.text])

\* the validation of add_claim
add_claim_validation(nodes, request, order) ==
    IF \E i \in 1..Len(request.dependencies) :
           request.dependencies[i] \notin NodeIds(nodes)
    THEN "UnknownDependency"
    ELSE IF request.type = "dependent" /\ request.dependencies = <<>>
    THEN "DependentRequiresDependency"
    ELSE IF check_circular_dependencies(add_claim_graph(nodes, request), order)
    THEN "CircularDependency"
    ELSE "ok"

RECURSIVE SelectSeq2(_, _)
\* [x for x in s if keep(x)] for a set keep of values
SelectSeq2(s, keep) ==
    IF s = <<>> THEN <<>>
    ELSE IF Head(s) \in keep THEN <<Head(s)>> \o SelectSeq2(Tail(s), keep)
    ELSE SelectSeq2(Tail(s), keep)

\* a delete that drops the node and its references and renumbers nothing
delete_claim_graph_unrenumbered(nodes, node_id) ==
    LET kept == SelectSeq(nodes, LAMBDA n : n.id # node_id)
    IN [i \in 1..Len(kept) |->
           [kept[i] EXCEPT
               !.dependencies = SelectSeq2(@, NodeIds(kept)),
               !.mirror_source = IF @ \in NodeIds(kept) THEN @ ELSE NoId]]

\* a delete that renumbers the ids and leaves the dependency lists as they were
delete_claim_graph_keeping_dependencies(nodes, node_id) ==
    LET kept == SelectSeq(nodes, LAMBDA n : n.id # node_id)
        renumber_map == [nid \in NodeIds(kept) |->
                            MaxOf({i \in 1..Len(kept) : kept[i].id = nid})]
    IN [i \in 1..Len(kept) |->
           [kept[i] EXCEPT
               !.id = renumber_map[kept[i].id],
               !.mirror_source = IF @ = NoId THEN NoId
                                 ELSE IF @ \in DOMAIN renumber_map
                                 THEN renumber_map[@] ELSE NoId]]

\* the graph delete_claim hands to _clone_and_save_version: the node removed,
\* the others renumbered 1..N in their order
delete_claim_graph(nodes, node_id) ==
    LET kept == SelectSeq(nodes, LAMBDA n : n.id # node_id)
        renumber_map == [nid \in NodeIds(kept) |->
                            MaxOf({i \in 1..Len(kept) : kept[i].id = nid})]
        renumber(s) == [i \in 1..Len(s) |-> renumber_map[s[i]]]
    IN [i \in 1..Len(kept) |->
           [kept[i] EXCEPT
               !.id = renumber_map[kept[i].id],
               !.dependencies = renumber(SelectSeq2(@, DOMAIN renumber_map)),
               !.mirror_source = IF @ = NoId THEN NoId
                                 ELSE IF @ \in DOMAIN renumber_map
                                 THEN renumber_map[@] ELSE NoId]]

delete_claim_validation(nodes, node_id) ==
    IF node_id \notin NodeIds(nodes) THEN "NodeNotFound" ELSE "ok"

\* a guard that lets claim edits through after the risk review as well
require_editable_matter_error_after_review(m) ==
    IF status[m] \notin {"CLAIMS_PROPOSED", "CLAIMS_APPROVED", "RISK_REVIEWED"}
    THEN "NotEditable"
    ELSE "ok"

\* _require_editable_matter
require_editable_matter_error(m) ==
    IF status[m] \notin {"CLAIMS_PROPOSED", "CLAIMS_APPROVED"} THEN "NotEditable"
    ELSE "ok"

\* the response of a claim edit endpoint whose service validation answers
\* `validation`: the guard, _fetch_source_version, the validation, then
\* _clone_and_save_version with its AuditEventType.CLAIMS_EDITED
claim_edit_error(m, version_id, validation) ==
    IF require_editable_matter_error(m) # "ok" THEN require_editable_matter_error(m)
    ELSE IF FindVersion(m, "claims", version_id) = NoId THEN "NotFound"
    ELSE IF validation # "ok" THEN validation
    ELSE IF "CLAIMS_EDITED" \notin AuditEventType THEN "AttributeError"
    ELSE "ok"

\* DraftingService._clone_and_save_version
clone_and_save_version(m, graph) ==
    LET vid == Len(versions["claims"]) + 1
    IN /\ CanCreate(m, "claims")
       /\ CanAudit
       /\ versions' = InsertVersion(versions, "claims",
                          NewVersion(m, "claims", graph, NoId, NoId, NoId))
       /\ \E w \in WorkstreamChoice(m) :
              workstreams' = SetPointer(workstreams, w, "claims", vid)
       /\ audit' = Append(audit, AuditEvent(m, "CLAIMS_EDITED", vid))
       /\ status' = IF status[m] = "CLAIMS_APPROVED"
                    THEN [status EXCEPT ![m] = "CLAIMS_PROPOSED"]
                    ELSE status
       /\ UNCHANGED <<defensibility_score, inflight, graph_data>>

\* the graph of the source version, <<>> when there is none
SourceGraph(m, version_id) ==
    IF FindVersion(m, "claims", version_id) = NoId THEN <<>>
    ELSE versions["claims"][version_id].payload

edit_claim_error(m, version_id, node_id, patch, order) ==
    claim_edit_error(m, version_id,
        edit_claim_validation(SourceGraph(m, version_id), node_id, patch, order))

\* edit_claim_endpoint and DraftingService.edit_claim
edit_claim(m, version_id, node_id, patch, order) ==
    IF edit_claim_error(m, version_id, node_id, patch, order) # "ok"
    THEN UNCHANGED vars
    ELSE clone_and_save_version(m,
             edit_claim_graph(SourceGraph(m, version_id), node_id, patch))

add_claim_error(m, version_id, request, order) ==
    claim_edit_error(m, version_id,
        add_claim_validation(SourceGraph(m, version_id), request, order))

\* add_claim_endpoint and DraftingService.add_claim
add_claim(m, version_id, request, order) ==
    IF add_claim_error(m, version_id, request, order) # "ok" THEN UNCHANGED vars
    ELSE clone_and_save_version(m,
             add_claim_graph(SourceGraph(m, version_id), request))

delete_claim_error(m, version_id, node_id) ==
    claim_edit_error(m, version_id,
        delete_claim_validation(SourceGraph(m, version_id), node_id))

\* delete_claim_endpoint and DraftingService.delete_claim
delete_claim(m, version_id, node_id) ==
    IF delete_claim_error(m, version_id, node_id) # "ok" THEN UNCHANGED vars
    ELSE clone_and_save_version(m,
             delete_claim_graph(SourceGraph(m, version_id), node_id))

\* ------------------------------------------------------------ the requests
\* a version id of a request: an existing row of the table or an unknown id
VersionIdInputs(k) == 1..(Len(versions[k]) + 1)
\* an optional version id: NoId stands for None
OptionalIdInputs(k) == 0..(Len(versions[k]) + 1)
\* a node id of a request: a node of the graph or an unknown id
NodeIdInputs(nodes) == 1..(Len(nodes) + 1)

\* what an agent run hands back: any payload when it succeeded; after a failed
\* run the handler reads no payload, and one stands for all
AgentOutputs(agent_ok, payloads) ==
    IF agent_ok THEN payloads ELSE {CHOOSE p \in payloads : TRUE}

EditClaimRequests ==
    {EditClaimRequest({}, "independent", <<>>),
     EditClaimRequest({"text"}, "independent", <<>>),
     EditClaimRequest({"type", "dependencies"}, "dependent", <<2>>),
     EditClaimRequest({"dependencies"}, "dependent", <<1>>),
     EditClaimRequest({"dependencies"}, "dependent", <<3>>),
     EditClaimRequest({"dependencies"}, "dependent", <<4>>)}

AddClaimRequests ==
    {AddClaimRequest("independent", <<>>), AddClaimRequest("dependent", <<>>),
     AddClaimRequest("dependent", <<2>>), AddClaimRequest("dependent", <<5>>)}

\* a request rejected before its body is read gets the same response whatever
\* the body: the body `any` then stands for all of them
BodyInputs(m, v, any, bodies) ==
    IF claim_edit_error(m, v, "ok") \in {"NotEditable", "NotFound"}
    THEN {any}
    ELSE bodies

\* iteration orders, one for each answer of the validation: `answer` maps each
\* order to the answer it leads to, and orders with the same answer lead to
\* the same response
OrderInputs(answer) ==
    {CHOOSE o \in DOMAIN answer : answer[o] = e :
        e \in {answer[o] : o \in DOMAIN answer}}

EditClaimInputs(m, v) ==
    BodyInputs(m, v,
        [node_id |-> 1, patch |-> EditClaimRequest({}, "independent", <<>>),
         order |-> <<>>],
        UNION {[node_id : {n}, patch : {p},
                order : OrderInputs(
                    [o \in Orders(NodeIds(SourceGraph(m, v))) |->
                        edit_claim_validation(SourceGraph(m, v), n, p, o)])] :
               n \in NodeIdInputs(SourceGraph(m, v)), p \in EditClaimRequests})

AddClaimInputs(m, v) ==
    BodyInputs(m, v,
        [request |-> AddClaimRequest("independent", <<>>), order |-> <<>>],
        UNION {[request : {r},
                order : OrderInputs(
                    [o \in Orders(NodeIds(add_claim_graph(SourceGraph(m, v), r))) |->
                        add_claim_validation(SourceGraph(m, v), r, o)])] :
               r \in AddClaimRequests})

Next ==
    \/ \E m \in ActiveMatters, ok \in BOOLEAN :
           \E p \in AgentOutputs(ok, BriefPayloads) : process_brief_upload(m, ok, p)
    \/ \E m \in ActiveMatters, v \in VersionIdInputs("brief") : approve_brief(m, v)
    \/ \E m \in ActiveMatters, s \in StatusNames : update_status(m, s)
    \/ \E m \in ActiveMatters, b \in OptionalIdInputs("brief"), ok \in BOOLEAN :
           \E g \in AgentOutputs(ok, AgentGraphs) :
           generate_claims(m, b, ok, g)
    \/ \E m \in ActiveMatters, v \in VersionIdInputs("claims") : commit_claims(m, v)
    \/ \E m \in ActiveMatters, v \in VersionIdInputs("claims") :
           \E x \in EditClaimInputs(m, v) :
               edit_claim(m, v, x.node_id, x.patch, x.order)
    \/ \E m \in ActiveMatters, v \in VersionIdInputs("claims") :
           \E x \in AddClaimInputs(m, v) : add_claim(m, v, x.request, x.order)
    \/ \E m \in ActiveMatters, v \in VersionIdInputs("claims") :
           \E n \in NodeIdInputs(SourceGraph(m, v)) : delete_claim(m, v, n)
    \/ \E m \in ActiveMatters, c \in OptionalIdInputs("claims"), ok \in BOOLEAN :
           \E a \in AgentOutputs(ok, RiskPayloads) :
           generate_risk_analysis(m, c, ok, a)
    \/ \E m \in ActiveMatters, sv \in OptionalIdInputs("spec"), ok \in BOOLEAN :
           \E a \in AgentOutputs(ok, RiskPayloads) :
           re_evaluate_risk_post_spec(m, sv, ok, a)
    \/ \E m \in ActiveMatters, v \in VersionIdInputs("risk") : commit_risk(m, v)
    \/ \E m \in ActiveMatters, c \in OptionalIdInputs("claims"),
          r \in OptionalIdInputs("risk"), ok \in BOOLEAN :
           \E d \in AgentOutputs(ok, SpecPayloads) :
           generate_specification(m, c, r, ok, d)
    \/ \E m \in ActiveMatters, v \in VersionIdInputs("spec") : commit_spec(m, v)
    \/ \E m \in ActiveMatters, v \in VersionIdInputs("spec"), d \in SpecPayloads :
           edit_spec(m, v, d)
    \/ \E m \in ActiveMatters, c \in OptionalIdInputs("claims"),
          sv \in OptionalIdInputs("spec"), ok \in BOOLEAN :
           \E q \in AgentOutputs(ok, QAPayloads) :
           run_qa_validation(m, c, sv, ok, q)
    \/ \E m \in ActiveMatters, v \in VersionIdInputs("qa") : commit_qa(m, v)
    \/ \E m \in ActiveMatters : lock_for_export(m)
    \/ \E m \in ActiveMatters : generate_docx(m)

Spec == Init /\ [][Next]_vars

\* ------------------------------------------------- concurrent version creators
\* Two requests run in two sessions.  A session reads the committed rows and
\* its own inserts become visible to the other session at its commit; no
\* table has a unique constraint on (matter_id, version_number) and no
\* handler takes a lock, so a commit never fails.

\* rows of kind k that open sessions are about to insert
Pending(k) ==
    Cardinality({r \in Requests :
                    /\ inflight[r].pc # "idle"
                    /\ inflight[r].op = IF k = "brief" THEN "process_brief_upload"
                                        ELSE "generate_claims"})

CanBegin(k) ==
    /\ TotalVersions + Pending("brief") + Pending("claims") < MaxVersions
    /\ Len(versions[k]) + Pending(k) < MaxPerKind

\* process_brief_upload up to its read of the latest version number
process_brief_upload_read_latest(r, m, agent_ok) ==
    /\ inflight[r].pc = "idle"
    /\ IF process_brief_upload_error(m, agent_ok) # "ok" THEN UNCHANGED vars
       ELSE /\ CanBegin("brief")
            /\ inflight' = [inflight EXCEPT ![r] =
                   [pc |-> "latest_read", op |-> "process_brief_upload",
                    matter_id |-> m, next_version |-> NextVersionNumber(m, "brief"),
                    workstream |-> NoId]]
            /\ UNCHANGED <<status, defensibility_score, versions, workstreams, audit, graph_data>>

\* process_brief_upload from its insert and flush to its select of the
\* drafting workstream: the session sees the workstreams committed so far
process_brief_upload_find_workstream(r) ==
    /\ inflight[r].pc = "latest_read"
    /\ inflight[r].op = "process_brief_upload"
    /\ \E w \in WorkstreamChoice(inflight[r].matter_id) :
           inflight' = [inflight EXCEPT ![r].pc = "workstream_read",
                                        ![r].workstream = w]
    /\ UNCHANGED <<status, defensibility_score, versions, workstreams, audit, graph_data>>

\* process_brief_upload from `if not workstream:` to its commit: a workstream
\* is added when the select found none
process_brief_upload_commit(r, payload) ==
    LET m == inflight[r].matter_id
        vid == Len(versions["brief"]) + 1
        ws1 == IF inflight[r].workstream = NoId
               THEN Append(workstreams, NewWorkstream(m))
               ELSE workstreams
        w == IF inflight[r].workstream = NoId THEN Len(ws1)
             ELSE inflight[r].workstream
    IN /\ inflight[r].pc = "workstream_read"
       /\ inflight[r].op = "process_brief_upload"
       /\ versions' = InsertVersion(versions, "brief",
              [NewVersion(m, "brief", payload, NoId, NoId, NoId)
                  EXCEPT !.version_number = inflight[r].next_version])
       /\ workstreams' = SetPointer(ws1, w, "brief", vid)
       /\ status' = IF status[m] = "CREATED"
                    THEN [status EXCEPT ![m] = "BRIEF_ANALYZED"]
                    ELSE status
       /\ inflight' = [inflight EXCEPT ![r] = Idle]
       /\ UNCHANGED <<defensibility_score, audit, graph_data>>

\* generate_claims up to its read of the latest version number
generate_claims_read_latest(r, m, brief_version_id, agent_ok) ==
    /\ inflight[r].pc = "idle"
    /\ IF generate_claims_error(m, brief_version_id, agent_ok) # "ok"
       THEN UNCHANGED vars
       ELSE /\ CanBegin("claims")
            /\ Len(audit) + Pending("claims") < MaxAudit
            /\ inflight' = [inflight EXCEPT ![r] =
                   [pc |-> "latest_read", op |-> "generate_claims",
                    matter_id |-> m, next_version |-> NextVersionNumber(m, "claims"),
                    workstream |-> NoId]]
            /\ UNCHANGED <<status, defensibility_score, versions, workstreams, audit, graph_data>>

\* generate_claims from its insert to its commit
generate_claims_commit(r, graph) ==
    LET m == inflight[r].matter_id
        vid == Len(versions["claims"]) + 1
    IN /\ inflight[r].pc = "latest_read"
       /\ inflight[r].op = "generate_claims"
       /\ versions' = InsertVersion(versions, "claims",
              [NewVersion(m, "claims", graph, NoId, NoId, NoId)
                  EXCEPT !.version_number = inflight[r].next_version])
       /\ status' = IF status[m] = "BRIEF_ANALYZED"
                    THEN [status EXCEPT ![m] = "CLAIMS_PROPOSED"]
                    ELSE status
       /\ \E w \in WorkstreamChoice(m) :
              workstreams' = SetPointer(workstreams, w, "claims", vid)
       /\ audit' = Append(audit, AuditEvent(m, "CLAIMS_GENERATED", vid))
       /\ inflight' = [inflight EXCEPT ![r] = Idle]
       /\ UNCHANGED <<defensibility_score, graph_data>>

\* lock_for_export up to the return of MatterService.update_status, which
\* commits the new status
lock_for_export_update_status(r, m) ==
    /\ inflight[r].pc = "idle"
    /\ IF lock_for_export_error(m) # "ok" THEN UNCHANGED vars
       ELSE /\ CanAudit
            /\ status' = [status EXCEPT ![m] = "LOCKED_FOR_EXPORT"]
            /\ inflight' = [inflight EXCEPT ![r] =
                   [pc |-> "status_committed", op |-> "lock_for_export",
                    matter_id |-> m, next_version |-> 0, workstream |-> NoId]]
            /\ UNCHANGED <<defensibility_score, versions, workstreams, audit, graph_data>>

\* lock_for_export from the add of its MATTER_LOCKED event to its own commit
lock_for_export_commit(r) ==
    /\ inflight[r].pc = "status_committed"
    /\ inflight[r].op = "lock_for_export"
    /\ CanAudit
    /\ audit' = Append(audit, AuditEvent(inflight[r].matter_id, "MATTER_LOCKED", NoId))
    /\ inflight' = [inflight EXCEPT ![r] = Idle]
    /\ UNCHANGED <<status, defensibility_score, versions, workstreams, graph_data>>

ConcNext ==
    \/ \E r \in Requests, m \in ActiveMatters, ok \in BOOLEAN :
           process_brief_upload_read_latest(r, m, ok)
    \/ \E r \in Requests : process_brief_upload_find_workstream(r)
    \/ \E r \in Requests, p \in BriefPayloads : process_brief_upload_commit(r, p)
    \/ \E r \in Requests, m \in ActiveMatters, b \in OptionalIdInputs("brief"),
          ok \in BOOLEAN :
           generate_claims_read_latest(r, m, b, ok)
    \/ \E r \in Requests, g \in AgentGraphs : generate_claims_commit(r, g)
    \/ \E m \in ActiveMatters, v \in VersionIdInputs("brief") : approve_brief(m, v)
    \/ \E m \in ActiveMatters, v \in VersionIdInputs("claims") : commit_claims(m, v)
    \/ \E m \in ActiveMatters, st \in StatusNames : update_status(m, st)
    \/ \E r \in Requests, m \in ActiveMatters : lock_for_export_update_status(r, m)
    \/ \E r \in Requests : lock_for_export_commit(r)
    \/ \E m \in ActiveMatters : generate_docx(m)

ConcSpec == Init /\ [][ConcNext]_vars

\* ------------------------------------------------------ two matters side by side
\* The briefing and claim handlers called for either matter, with version ids
\* of either matter.
MatterNext ==
    \/ \E m \in Matters, ok \in BOOLEAN :
           \E p \in AgentOutputs(ok, BriefPayloads) : process_brief_upload(m, ok, p)
    \/ \E m \in Matters, v \in VersionIdInputs("brief") : approve_brief(m, v)
    \/ \E m \in Matters, b \in OptionalIdInputs("brief"), ok \in BOOLEAN :
           \E g \in AgentOutputs(ok, AgentGraphs) :
           generate_claims(m, b, ok, g)
    \/ \E m \in Matters, v \in VersionIdInputs("claims") : commit_claims(m, v)

MatterSpec == Init /\ [][MatterNext]_vars

\* ------------------------------------------- the graph operations on their own
\* The graph computations of edit_claim, add_claim and delete_claim applied to
\* a ClaimGraph.  The matter has its claims generated: version 1 of its claim
\* graphs is the source version.  `graph_data` starts as the graph of that
\* version and becomes the graph an operation hands to
\* _clone_and_save_version; an operation whose validation raises leaves it as
\* it was.  The edit endpoint runs against the source version.
MaxNodes == 3

\* ids a request may name: those a graph of MaxNodes nodes can use and one more
IdInputs == 1..(MaxNodes + 1)

\* the dependency lists of the requests
DependencyInputs ==
    {<<>>} \cup {<<a>> : a \in IdInputs} \cup {<<1, 2>>, <<2, 1>>}

\* the source graphs: what the claims agent assembles, and a graph whose
\* ids are not in sequence (the column takes any ClaimGraph)
SourceGraphs ==
    AgentGraphs \cup
    {<<ClaimNode(1, "independent", "system", <<>>, NoId),
       ClaimNode(2, "dependent", "system", <<1>>, NoId),
       ClaimNode(3, "dependent", "method", <<2>>, 1)>>,
     <<ClaimNode(1, "independent", "system", <<>>, NoId),
       ClaimNode(2, "dependent", "system", <<1>>, NoId),
       ClaimNode(3, "dependent", "method", <<2, 1>>, 2)>>,
     <<ClaimNode(4, "independent", "system", <<>>, NoId),
       ClaimNode(2, "dependent", "system", <<4>>, NoId),
       ClaimNode(3, "independent", "method", <<>>, 4)>>,
     <<ClaimNode(NonNumericId, "independent", "system", <<>>, NoId)>>}

\* after process_brief_upload, approve_brief and generate_claims on one matter
GraphInitFrom(graphs) ==
    /\ graph_data \in graphs
    /\ status = [m \in Matters |->
                    IF m \in ActiveMatters THEN "CLAIMS_PROPOSED" ELSE "CREATED"]
    /\ defensibility_score = [m \in Matters |-> 0]
    /\ \E m \in ActiveMatters :
           /\ versions =
                  [k \in Kinds |->
                      IF k = "brief"
                      THEN <<[matter_id |-> m, version_number |-> 1,
                              is_authoritative |-> TRUE,
                              payload |-> CHOOSE p \in BriefPayloads : TRUE,
                              claim_version_id |-> NoId, risk_version_id |-> NoId,
                              spec_version_id |-> NoId]>>
                      ELSE IF k = "claims"
                      THEN <<[matter_id |-> m, version_number |-> 1,
                              is_authoritative |-> FALSE, payload |-> graph_data,
                              claim_version_id |-> NoId, risk_version_id |-> NoId,
                              spec_version_id |-> NoId]>>
                      ELSE <<>>]
           /\ workstreams =
                  SetPointer(SetPointer(<<NewWorkstream(m)>>, 1, "brief", 1),
                             1, "claims", 1)
           /\ audit = <<AuditEvent(m, "CLAIMS_GENERATED", 1)>>
    /\ inflight = [r \in Requests |-> Idle]

GraphInit == GraphInitFrom(SourceGraphs)

\* DraftingService.edit_claim on the graph, up to _clone_and_save_version
edit_claim_nodes(node_id, patch) ==
    /\ ~(\A order \in Orders(NodeIds(graph_data)) :
             edit_claim_validation(graph_data, node_id, patch, order) # "ok")
    /\ graph_data' = edit_claim_graph(graph_data, node_id, patch)
    /\ UNCHANGED <<status, defensibility_score, versions, workstreams, audit,
                   inflight>>

\* DraftingService.add_claim on the graph, up to _clone_and_save_version
add_claim_nodes(request) ==
    /\ Len(graph_data) < MaxNodes
    /\ ~(\A order \in Orders(NodeIds(add_claim_graph(graph_data, request))) :
             add_claim_validation(graph_data, request, order) # "ok")
    /\ graph_data' = add_claim_graph(graph_data, request)
    /\ UNCHANGED <<status, defensibility_score, versions, workstreams, audit,
                   inflight>>

\* DraftingService.delete_claim on the graph, up to _clone_and_save_version
delete_claim_nodes(node_id) ==
    /\ delete_claim_validation(graph_data, node_id) = "ok"
    /\ graph_data' = delete_claim_graph(graph_data, node_id)
    /\ UNCHANGED <<status, defensibility_score, versions, workstreams, audit,
                   inflight>>

GraphNext ==
    \/ \E n \in IdInputs, d \in DependencyInputs :
           edit_claim_nodes(n, EditClaimRequest({"dependencies"}, "dependent", d))
    \/ \E d \in DependencyInputs \cup {<<NonNumericId>>} :
           add_claim_nodes(AddClaimRequest("dependent", d))
    \/ \E n \in IdInputs : delete_claim_nodes(n)
    \/ \E m \in ActiveMatters, v \in VersionIdInputs("claims") :
           \E x \in EditClaimInputs(m, v) :
               edit_claim(m, v, x.node_id, x.patch, x.order)

GraphSpec == GraphInit /\ [][GraphNext]_vars

\* ClaimGraph(**source.graph_data) validates no dependency: graphs in which a
\* node lists its own id are graphs the operations accept as their source
SelfDependentGraphs ==
    {<<ClaimNode(1, "dependent", "system", <<1>>, NoId),
       ClaimNode(2, "dependent", "system", <<1>>, NoId)>>,
     <<ClaimNode(1, "independent", "system", <<>>, NoId),
       ClaimNode(2, "dependent", "system", <<2>>, NoId),
       ClaimNode(3, "dependent", "method", <<1>>, 1)>>}

\* the graph operations applied to source graphs of either sort
GraphNodesNext ==
    \/ \E n \in IdInputs, d \in DependencyInputs :
           edit_claim_nodes(n, EditClaimRequest({"dependencies"}, "dependent", d))
    \/ \E d \in DependencyInputs \cup {<<NonNumericId>>} :
           add_claim_nodes(AddClaimRequest("dependent", d))
    \/ \E n \in IdInputs : delete_claim_nodes(n)

AnyGraphSpec ==
    GraphInitFrom(SourceGraphs \cup SelfDependentGraphs) /\ [][GraphNodesNext]_vars

\* ------------------------------------------------------------ the claims
\* the transition table of section 4.1 of the specification
TransitionTable ==
    {<<"CREATED", "BRIEF_ANALYZED">>,
     <<"BRIEF_ANALYZED", "CLAIMS_PROPOSED">>,
     <<"CLAIMS_PROPOSED", "CLAIMS_APPROVED">>,
     <<"CLAIMS_PROPOSED", "BRIEF_ANALYZED">>,
     <<"CLAIMS_APPROVED", "RISK_REVIEWED">>,
     <<"CLAIMS_APPROVED", "SPEC_GENERATED">>,
     <<"RISK_REVIEWED", "SPEC_GENERATED">>,
     <<"RISK_REVIEWED", "CLAIMS_APPROVED">>,
     <<"SPEC_GENERATED", "QA_COMPLETE">>,
     <<"SPEC_GENERATED", "RISK_RE_REVIEWED">>,
     <<"RISK_RE_REVIEWED", "QA_COMPLETE">>,
     <<"QA_COMPLETE", "LOCKED_FOR_EXPORT">>,
     <<"QA_COMPLETE", "SPEC_GENERATED">>}

\* the rows of one matter and kind that carry the authoritative flag
Flagged(m, k) == {i \in VersionIds(m, k) : versions[k][i].is_authoritative}

C2_InvalidTransitionRejected ==
    /\ [](\A m \in ActiveMatters, t \in MatterState :
              <<status[m], t>> \notin TransitionTable
                  => update_status_error(m, t) = "InvalidTransition")
    /\ [][\A m \in ActiveMatters, t \in MatterState :
              (status' # status /\ <<status[m], t>> \notin TransitionTable)
                  => ~update_status(m, t)]_vars

\* C2 witness: a matter moved to CLAIMS_APPROVED for which the request to go
\* back to CREATED is answered with the invalid-transition error.
C2_Witness ==
    /\ status["m1"] = "CLAIMS_APPROVED"
    /\ update_status_error("m1", "CREATED") = "InvalidTransition"

\* C3: the pairs the manual transition accepts are exactly the pairs of the
\* section 4.1 table, SPEC_GENERATED -> RISK_RE_REVIEWED and
\* RISK_RE_REVIEWED -> QA_COMPLETE included.
C3_AcceptedPairsEqualTable ==
    \A m \in ActiveMatters, t \in StatusNames :
        update_status_error(m, t) = "ok" <=> <<status[m], t>> \in TransitionTable

\* C4: for each matter and artifact kind at most one version is authoritative.
C4_AtMostOneAuthoritative ==
    \A m \in Matters, k \in Kinds : Cardinality(Flagged(m, k)) <= 1

\* C5: after a successful commit of version v the authoritative lookup of that
\* matter and kind (the flagged row with the highest version_number) returns v.
C5_LookupReturnsCommitted ==
    [][\A m \in ActiveMatters :
           /\ \A v \in VersionIds(m, "brief") :
                  (approve_brief(m, v) /\ approve_brief_error(m, v) = "ok")
                      => AuthoritativeRows(m, "brief")' = {v}
           /\ \A v \in VersionIds(m, "claims") :
                  (commit_claims(m, v) /\ commit_claims_error(m, v) = "ok")
                      => AuthoritativeRows(m, "claims")' = {v}
           /\ \A v \in VersionIds(m, "risk") :
                  (commit_risk(m, v) /\ commit_risk_error(m, v) = "ok")
                      => AuthoritativeRows(m, "risk")' = {v}
           /\ \A v \in VersionIds(m, "spec") :
                  (commit_spec(m, v) /\ commit_spec_error(m, v) = "ok")
                      => AuthoritativeRows(m, "spec")' = {v}
           /\ \A v \in VersionIds(m, "qa") :
                  (commit_qa(m, v) /\ commit_qa_error(m, v) = "ok")
                      => AuthoritativeRows(m, "qa")' = {v}]_vars

\* C6: under sequential execution the version_numbers of one matter and kind
\* are 1..n without gap or repeat, each new version getting max + 1: the j-th
\* version created for the matter carries the number j.
C6_VersionNumbersSequential ==
    \A m \in Matters, k \in Kinds : \A i \in VersionIds(m, k) :
        versions[k][i].version_number =
            Cardinality({j \in VersionIds(m, k) : j <= i})

\* C6 witness: a matter with two brief versions, the first approved, and two
\* generated claims versions.
C6_Witness ==
    /\ Cardinality(VersionIds("m1", "brief")) = 2
    /\ versions["brief"][1].is_authoritative
    /\ Cardinality(VersionIds("m1", "claims")) = 2

\* C7: when two requests that create a version of the same kind for the same
\* matter run concurrently, no two persisted versions of that kind and matter
\* share a version_number.
C7_NoSharedVersionNumber ==
    \A m \in Matters, k \in Kinds : \A i, j \in VersionIds(m, k) :
        versions[k][i].version_number = versions[k][j].version_number => i = j

\* C8: committing a QA report version whose payload has can_export false fails
\* (with the blocked-by-errors error); the version stays non-authoritative and
\* the matter's status and the workstream's QA pointer stay as they were.
C8_BlockedCommitChangesNothing ==
    /\ [](\A m \in ActiveMatters : \A v \in VersionIds(m, "qa") :
              ~can_export(versions["qa"][v].payload)
                  => /\ commit_qa_error(m, v) = "BlockedByErrors"
                     /\ ~versions["qa"][v].is_authoritative)
    /\ [][\A m \in ActiveMatters : \A v \in VersionIds(m, "qa") :
              (~can_export(versions["qa"][v].payload) /\ commit_qa(m, v))
                  => /\ ~versions'["qa"][v].is_authoritative
                     /\ status' = status
                     /\ workstreams' = workstreams]_vars

\* C8 witness: a stored QA report that cannot be exported, whose commit request
\* is answered with the blocked-by-errors error.
C8_Witness ==
    \E v \in VersionIds("m1", "qa") :
        /\ ~can_export(versions["qa"][v].payload)
        /\ commit_qa_error("m1", v) = "BlockedByErrors"

\* C9: for every QA report version whose payload has total_errors > 0,
\* whatever its can_export flag, commit fails with the blocked-by-errors error
\* and the version keeps is_authoritative false.
C9_ErrorsBlockCommit ==
    \A m \in ActiveMatters : \A v \in VersionIds(m, "qa") :
        versions["qa"][v].payload.total_errors > 0
            => /\ commit_qa_error(m, v) = "BlockedByErrors"
               /\ ~versions["qa"][v].is_authoritative

\* C10: LOCKED_FOR_EXPORT is terminal: once a matter's status is
\* LOCKED_FOR_EXPORT no operation changes it again.
C10_LockedIsTerminal ==
    [][\A m \in Matters :
           status[m] = "LOCKED_FOR_EXPORT" => status'[m] = "LOCKED_FOR_EXPORT"]_vars

\* C10 witness: a matter locked by lock_for_export, its MATTER_LOCKED event
\* recorded, on which a manual transition back to QA_COMPLETE is refused.
C10_Witness ==
    /\ status["m1"] = "LOCKED_FOR_EXPORT"
    /\ \E i \in 1..Len(audit) : audit[i].event_type = "MATTER_LOCKED"
    /\ update_status_error("m1", "QA_COMPLETE") = "InvalidTransition"

\* ids pairwise distinct
DistinctIds(nodes) ==
    \A i, j \in 1..Len(nodes) : nodes[i].id = nodes[j].id => i = j

\* the position of the node `id` among the nodes other than k
RankWithout(nodes, k, id) ==
    Cardinality({i \in 1..Len(nodes) :
                    /\ nodes[i].id # k
                    /\ \E j \in i..Len(nodes) : nodes[j].id = id})

\* the index in `nodes` of the j-th node other than k
SurvivorIndex(nodes, k, j) ==
    CHOOSE i \in 1..Len(nodes) :
        nodes[i].id # k /\ RankWithout(nodes, k, nodes[i].id) = j

\* C11: deleting an existing node k from a graph of N nodes with pairwise
\* distinct ids gives N-1 nodes in their previous relative order with ids
\* 1..N-1; the dependencies of a node are the new ids of its surviving
\* dependencies (those on k dropped) and its mirror_source is the new id of a
\* surviving node or null.
C11_DeleteRenumbers ==
    \A k \in NodeIds(graph_data) :
        DistinctIds(graph_data) =>
            LET r == delete_claim_graph(graph_data, k)
                Surviving == NodeIds(graph_data) \ {k}
            IN /\ Len(r) = Len(graph_data) - 1
               /\ \A j \in 1..Len(r) :
                      LET old == graph_data[SurvivorIndex(graph_data, k, j)]
                          deps == SelectSeq(old.dependencies,
                                            LAMBDA d : d \in Surviving)
                      IN /\ r[j].id = j
                         /\ r[j].text = old.text
                         /\ r[j].type = old.type
                         /\ r[j].category = old.category
                         /\ r[j].dependencies =
                                [i \in 1..Len(deps) |->
                                    RankWithout(graph_data, k, deps[i])]
                         /\ \A i \in 1..Len(r[j].dependencies) :
                                r[j].dependencies[i] \in 1..Len(r)
                         /\ r[j].mirror_source =
                                IF old.mirror_source \in Surviving
                                THEN RankWithout(graph_data, k, old.mirror_source)
                                ELSE NoId

\* the first node of a chain of three was deleted: the second and third moved
\* up, the dependency on the deleted node is gone, the mirror follows its source
C11_Witness ==
    /\ graph_data =
           <<ClaimNode(1, "dependent", "system", <<>>, NoId),
             ClaimNode(2, "dependent", "method", <<1>>, 1)>>
    /\ \E g \in SourceGraphs : Len(g) = 3 /\ graph_data = delete_claim_graph(g, 1)

\* the ids the node `id` lists as dependencies
DependsOn(nodes, id) ==
    UNION {{nodes[i].dependencies[x] : x \in 1..Len(nodes[i].dependencies)} :
           i \in {h \in 1..Len(nodes) : nodes[h].id = id}}

RECURSIVE DependencyClosure(_, _)
\* the ids reached from the ids S along dependencies, S included
DependencyClosure(nodes, S) ==
    LET T == S \cup UNION {DependsOn(nodes, x) : x \in S}
    IN IF T = S THEN S ELSE DependencyClosure(nodes, T)

\* some node depends on itself, directly or through other nodes
Cyclic(nodes) ==
    \E id \in NodeIds(nodes) :
        id \in DependencyClosure(nodes, DependsOn(nodes, id))

\* a patch of the dependencies of an existing node that passes the checks
\* made before the cycle check
PassesDependencyChecks(nodes, node_id, patch) ==
    /\ node_id \in NodeIds(nodes)
    /\ "dependencies" \in patch.fields_set
    /\ \A i \in 1..Len(patch.dependencies) :
           /\ patch.dependencies[i] \in NodeIds(nodes)
           /\ patch.dependencies[i] # node_id

\* C12: an edit whose patched dependencies close a cycle, directly or through
\* other nodes, is answered with the circular-dependency error whatever the
\* iteration order of the check, and the request changes nothing: no version
\* row, no status, pointer or audit change.
C12_CyclicEditRejected ==
    /\ [](\A n \in IdInputs, d \in DependencyInputs :
              LET patch == EditClaimRequest({"dependencies"}, "dependent", d)
              IN (/\ PassesDependencyChecks(graph_data, n, patch)
                  /\ Cyclic(edit_claim_graph(graph_data, n, patch)))
                 => \A order \in Orders(NodeIds(graph_data)) :
                        edit_claim_validation(graph_data, n, patch, order)
                            = "CircularDependency")
    /\ [](\A m \in ActiveMatters : \A v \in VersionIds(m, "claims") :
              \A n \in IdInputs, patch \in EditClaimRequests :
                 (/\ require_editable_matter_error(m) = "ok"
                  /\ PassesDependencyChecks(SourceGraph(m, v), n, patch)
                  /\ Cyclic(edit_claim_graph(SourceGraph(m, v), n, patch)))
                 => \A order \in Orders(NodeIds(SourceGraph(m, v))) :
                        edit_claim_error(m, v, n, patch, order)
                            = "CircularDependency")
    /\ [][\/ UNCHANGED <<versions, status, workstreams, audit>>
          \/ \A m \in ActiveMatters : \A v \in VersionIds(m, "claims") :
                 \A n \in IdInputs, patch \in EditClaimRequests :
                    \A order \in Orders(NodeIds(SourceGraph(m, v))) :
                       edit_claim_error(m, v, n, patch, order) = "CircularDependency"
                           => ~edit_claim(m, v, n, patch, order)]_vars

\* the source version holds the chain 3 -> 2 -> 1; the edit that makes 1 depend
\* on 3 closes a cycle through 2 and is answered with the error
C12_Witness ==
    /\ \E m \in ActiveMatters :
           /\ SourceGraph(m, 1) =
                  <<ClaimNode(1, "independent", "system", <<>>, NoId),
                    ClaimNode(2, "dependent", "system", <<1>>, NoId),
                    ClaimNode(3, "dependent", "method", <<2>>, 1)>>
           /\ edit_claim_error(m, 1, 1,
                  EditClaimRequest({"dependencies"}, "dependent", <<3>>),
                  <<1, 2, 3>>) = "CircularDependency"
    /\ ~Cyclic(graph_data)
    /\ Len(graph_data) = 2

\* C13: from an acyclic graph, the graph every successful edit, add or delete
\* hands on to be persisted is acyclic, and so is the graph of every
\* persisted claim graph version.
C13_GraphsStayAcyclic ==
    /\ ~Cyclic(graph_data)
    /\ \A i \in 1..Len(versions["claims"]) : ~Cyclic(versions["claims"][i].payload)

\* a chain 3 -> 2 -> 1 whose second and third nodes were added after a delete
\* and whose third node had its dependencies edited
C13_Witness ==
    /\ Len(graph_data) = 3
    /\ graph_data[2].text = "added" /\ graph_data[2].dependencies = <<1>>
    /\ graph_data[3].text = "added" /\ graph_data[3].dependencies = <<2>>
    /\ \A g \in SourceGraphs : ~Cyclic(g)

\* C14: a claim edit that passes the status guard and the validation succeeds:
\* it creates a new non-authoritative version and resets CLAIMS_APPROVED to
\* CLAIMS_PROPOSED.  Stated for the edit of the text of an existing node of an
\* existing version of a matter in CLAIMS_PROPOSED or CLAIMS_APPROVED.
C14_EditCreatesProposedVersion ==
    \A m \in ActiveMatters : \A v \in VersionIds(m, "claims") :
        \A n \in NodeIds(SourceGraph(m, v)) :
            \A order \in Orders(NodeIds(SourceGraph(m, v))) :
                require_editable_matter_error(m) = "ok"
                    => edit_claim_error(m, v, n,
                           EditClaimRequest({"text"}, "independent", <<>>),
                           order) = "ok"

\* the event types that record the creation and the commit of a version
CreationEvents(k) ==
    IF k = "brief" THEN {"BRIEF_UPLOADED"}
    ELSE IF k = "claims" THEN {"CLAIMS_GENERATED", "CLAIMS_EDITED"}
    ELSE IF k = "risk" THEN {"RISK_ANALYZED", "RISK_RE_EVALUATED"}
    ELSE IF k = "spec" THEN {"SPEC_GENERATED", "SPEC_EDITED"}
    ELSE {"QA_VALIDATED"}

CommitEvents(k) ==
    IF k = "brief" THEN {"BRIEF_APPROVED"}
    ELSE IF k = "claims" THEN {"CLAIMS_COMMITTED"}
    ELSE IF k = "risk" THEN {"RISK_COMMITTED", "RISK_RE_EVAL_COMMITTED"}
    ELSE IF k = "spec" THEN {"SPEC_COMMITTED"}
    ELSE {"QA_COMMITTED"}

Recorded(m, types, vid) ==
    \E e \in 1..Len(audit) :
        /\ audit[e].matter_id = m
        /\ audit[e].event_type \in types
        /\ audit[e].artifact_version_id = vid

\* C15: every successful state-changing operation appends an AuditEvent of the
\* matching type in the same step, so in every state each version has the event
\* of its creation, naming the matter and the version, and each authoritative
\* version has the event of its commit.
C15_EveryChangeIsAudited ==
    \A k \in Kinds : \A i \in 1..Len(versions[k]) :
        /\ Recorded(versions[k][i].matter_id, CreationEvents(k), i)
        /\ versions[k][i].is_authoritative
               => Recorded(versions[k][i].matter_id, CommitEvents(k), i)

\* C16: the audit log is append-only: every step leaves the recorded events as
\* they were, in their order, and at most adds events after them.
C16_AuditAppendOnly ==
    [][\/ audit' = audit
       \/ /\ Len(audit') > Len(audit)
          /\ SubSeq(audit', 1, Len(audit)) = audit]_vars

\* the log grew twice: the generation of a claim graph, then its commit
C16_Witness ==
    /\ Len(audit) = 2
    /\ audit[1].event_type = "CLAIMS_GENERATED"
    /\ audit[2].event_type = "CLAIMS_COMMITTED"
    /\ audit[1].artifact_version_id = audit[2].artifact_version_id

\* the columns of a version row other than is_authoritative
Content(row) ==
    [matter_id |-> row.matter_id, version_number |-> row.version_number,
     payload |-> row.payload, claim_version_id |-> row.claim_version_id,
     risk_version_id |-> row.risk_version_id,
     spec_version_id |-> row.spec_version_id]

CommitStep(k, m, v) ==
    IF k = "brief" THEN approve_brief_error(m, v) = "ok" /\ approve_brief(m, v)
    ELSE IF k = "claims" THEN commit_claims_error(m, v) = "ok" /\ commit_claims(m, v)
    ELSE IF k = "risk" THEN commit_risk_error(m, v) = "ok" /\ commit_risk(m, v)
    ELSE IF k = "spec" THEN commit_spec_error(m, v) = "ok" /\ commit_spec(m, v)
    ELSE commit_qa_error(m, v) = "ok" /\ commit_qa(m, v)

\* C18: the only change to a version's is_authoritative is false -> true, made
\* by a successful commit of that very version; a version is created with the
\* flag false and no step resets a flag.
C18_FlagOnlyRaisedByCommit ==
    [][\/ versions' = versions
       \/ \A k \in Kinds :
              /\ \A i \in 1..Len(versions[k]) :
                     versions'[k][i].is_authoritative # versions[k][i].is_authoritative
                         => /\ ~versions[k][i].is_authoritative
                            /\ versions'[k][i].is_authoritative
                            /\ CommitStep(k, versions[k][i].matter_id, i)
              /\ \A i \in (Len(versions[k]) + 1)..Len(versions'[k]) :
                     ~versions'[k][i].is_authoritative]_vars

\* the second brief version was approved, the first was not
C18_Witness ==
    /\ Len(versions["brief"]) = 2
    /\ ~versions["brief"][1].is_authoritative
    /\ versions["brief"][2].is_authoritative

\* in the next state every workstream of matter m points at version v of kind
\* k, and m has a workstream
PointsAt(k, m, v) ==
    /\ \E w \in 1..Len(workstreams') : workstreams'[w].matter_id = m
    /\ \A w \in 1..Len(workstreams') :
           workstreams'[w].matter_id = m
               => workstreams'[w].active[k] = VersionRef(k, v)

\* C19: after every successful creation or commit of a version of kind K the
\* pointer active_K of the matter's workstream is the id of that version.
C19_PointerFollowsVersion ==
    [][\/ (versions' = versions /\ workstreams' = workstreams)
       \/ \A k \in Kinds :
              /\ \A i \in (Len(versions[k]) + 1)..Len(versions'[k]) :
                     PointsAt(k, versions'[k][i].matter_id, i)
              /\ \A i \in 1..Len(versions[k]) :
                     \/ PointsAt(k, versions[k][i].matter_id, i)
                     \/ ~CommitStep(k, versions[k][i].matter_id, i)]_vars

\* two briefs were uploaded and the first was approved afterwards: the pointer
\* went to the second and came back to the first
C19_Witness ==
    /\ Len(versions["brief"]) = 2
    /\ versions["brief"][1].is_authoritative
    /\ ~versions["brief"][2].is_authoritative
    /\ Len(workstreams) = 1
    /\ workstreams[1].active["brief"] = VersionRef("brief", 1)
    /\ workstreams[1].active["claims"] = NoRef

\* C20: each non-null workstream pointer references an existing version of the
\* workstream's own matter and of the pointer's kind.
C20_PointersReferToOwnVersions ==
    \A w \in 1..Len(workstreams) : \A k \in Kinds :
        workstreams[w].active[k] # NoRef
            => /\ workstreams[w].active[k].kind = k
               /\ workstreams[w].active[k].id
                      \in VersionIds(workstreams[w].matter_id, k)

\* both matters have a workstream with a brief and a claim pointer, while the
\* tables hold the versions of both
C20_Witness ==
    /\ Len(workstreams) = 2
    /\ workstreams[1].matter_id # workstreams[2].matter_id
    /\ \A w \in 1..2 : \A k \in {"brief", "claims"} :
           workstreams[w].active[k] # NoRef
    /\ Len(versions["brief"]) = 2
    /\ Len(versions["claims"]) = 2
\* ---------------------------------------------------------------------------
\* C21: a matter never has more than one drafting workstream, and has exactly
\* one as soon as it has a version of any kind, also when two first brief
\* uploads of the same matter run concurrently.
C21_OneWorkstreamPerMatter ==
    \A m \in Matters :
        /\ Cardinality(WorkstreamRows(m)) <= 1
        /\ (\E k \in Kinds : VersionIds(m, k) # {})
               => Cardinality(WorkstreamRows(m)) = 1

\* ---------------------------------------------------------------------------
\* The generation pipeline on its own: the six generations, the brief
\* approval and the four commits, without status overrides, edits and export.
PipelineNext ==
    \/ \E m \in ActiveMatters, ok \in BOOLEAN :
           \E p \in AgentOutputs(ok, BriefPayloads) : process_brief_upload(m, ok, p)
    \/ \E m \in ActiveMatters, v \in VersionIdInputs("brief") : approve_brief(m, v)
    \/ \E m \in ActiveMatters, b \in OptionalIdInputs("brief"), ok \in BOOLEAN :
           \E g \in AgentOutputs(ok, AgentGraphs) :
           generate_claims(m, b, ok, g)
    \/ \E m \in ActiveMatters, v \in VersionIdInputs("claims") : commit_claims(m, v)
    \/ \E m \in ActiveMatters, c \in OptionalIdInputs("claims"), ok \in BOOLEAN :
           \E a \in AgentOutputs(ok, RiskPayloads) :
           generate_risk_analysis(m, c, ok, a)
    \/ \E m \in ActiveMatters, sv \in OptionalIdInputs("spec"), ok \in BOOLEAN :
           \E a \in AgentOutputs(ok, RiskPayloads) :
           re_evaluate_risk_post_spec(m, sv, ok, a)
    \/ \E m \in ActiveMatters, v \in VersionIdInputs("risk") : commit_risk(m, v)
    \/ \E m \in ActiveMatters, c \in OptionalIdInputs("claims"),
          r \in OptionalIdInputs("risk"), ok \in BOOLEAN :
           \E d \in AgentOutputs(ok, SpecPayloads) :
           generate_specification(m, c, r, ok, d)
    \/ \E m \in ActiveMatters, v \in VersionIdInputs("spec") : commit_spec(m, v)
    \/ \E m \in ActiveMatters, c \in OptionalIdInputs("claims"),
          sv \in OptionalIdInputs("spec"), ok \in BOOLEAN :
           \E q \in AgentOutputs(ok, QAPayloads) :
           run_qa_validation(m, c, sv, ok, q)
    \/ \E m \in ActiveMatters, v \in VersionIdInputs("qa") : commit_qa(m, v)

PipelineSpec == Init /\ [][PipelineNext]_vars

\* a step of a generation whose agent call failed that is not a rejection:
\* a rejected request leaves every variable as it was
AgentFailedStep ==
    \E m \in ActiveMatters :
        \/ \E p \in BriefPayloads : process_brief_upload(m, FALSE, p)
        \/ \E b \in OptionalIdInputs("brief") :
               /\ generate_claims_error(m, b, FALSE) = "ok"
               /\ \E g \in AgentGraphs : generate_claims(m, b, FALSE, g)
        \/ \E c \in OptionalIdInputs("claims") :
               /\ generate_risk_analysis_error(m, c, FALSE) = "ok"
               /\ \E a \in RiskPayloads : generate_risk_analysis(m, c, FALSE, a)
        \/ \E sv \in OptionalIdInputs("spec") :
               /\ re_evaluate_risk_post_spec_error(m, sv, FALSE) = "ok"
               /\ \E a \in RiskPayloads :
                      re_evaluate_risk_post_spec(m, sv, FALSE, a)
        \/ \E c \in OptionalIdInputs("claims"), r \in OptionalIdInputs("risk") :
               /\ generate_specification_error(m, c, r, FALSE) = "ok"
               /\ \E d \in SpecPayloads : generate_specification(m, c, r, FALSE, d)
        \/ \E c \in OptionalIdInputs("claims"), sv \in OptionalIdInputs("spec") :
               /\ run_qa_validation_error(m, c, sv, FALSE) = "ok"
               /\ \E q \in QAPayloads : run_qa_validation(m, c, sv, FALSE, q)

AgentFailureFails ==
    \A m \in ActiveMatters :
        /\ process_brief_upload_error(m, FALSE) # "ok"
        /\ \A b \in OptionalIdInputs("brief") :
               generate_claims_error(m, b, FALSE) # "ok"
        /\ \A c \in OptionalIdInputs("claims") :
               generate_risk_analysis_error(m, c, FALSE) # "ok"
        /\ \A sv \in OptionalIdInputs("spec") :
               re_evaluate_risk_post_spec_error(m, sv, FALSE) # "ok"
        /\ \A c \in OptionalIdInputs("claims"), r \in OptionalIdInputs("risk") :
               generate_specification_error(m, c, r, FALSE) # "ok"
        /\ \A c \in OptionalIdInputs("claims"), sv \in OptionalIdInputs("spec") :
               run_qa_validation_error(m, c, sv, FALSE) # "ok"

RequiredKinds(op) ==
    CASE op = "generate_claims" -> {"brief"}
      [] op = "generate_risk_analysis" -> {"claims"}
      [] op = "generate_specification" -> {"brief", "claims", "risk"}
      [] op = "run_qa_validation" -> {"brief", "claims", "spec"}

Unapproved(m, op) == \E k \in RequiredKinds(op) : AuthoritativeRows(m, k) = {}

\* a step of a generation without version ids on a matter that lacks an
\* approved predecessor
UnapprovedStep ==
    \E m \in ActiveMatters, ok \in BOOLEAN :
        \/ /\ Unapproved(m, "generate_claims")
           /\ \E g \in AgentGraphs : generate_claims(m, NoId, ok, g)
        \/ /\ Unapproved(m, "generate_risk_analysis")
           /\ \E a \in RiskPayloads : generate_risk_analysis(m, NoId, ok, a)
        \/ /\ Unapproved(m, "generate_specification")
           /\ \E d \in SpecPayloads : generate_specification(m, NoId, NoId, ok, d)
        \/ /\ Unapproved(m, "run_qa_validation")
           /\ \E q \in QAPayloads : run_qa_validation(m, NoId, NoId, ok, q)

UnapprovedIsRefused ==
    \A m \in ActiveMatters, ok \in BOOLEAN :
        /\ Unapproved(m, "generate_claims")
               => generate_claims_error(m, NoId, ok) = "MissingApproval"
        /\ Unapproved(m, "generate_risk_analysis")
               => generate_risk_analysis_error(m, NoId, ok) = "MissingApproval"
        /\ Unapproved(m, "generate_specification")
               => generate_specification_error(m, NoId, NoId, ok) = "MissingApproval"
        /\ Unapproved(m, "run_qa_validation")
               => run_qa_validation_error(m, NoId, NoId, ok) = "MissingApproval"

\* C23: a generation request that names no input version id fails with the
\* missing-approval error, whatever the agent would answer, and creates no
\* version, whenever a required predecessor kind has no authoritative version
\* (brief for claims; claims for risk; brief, claims and risk for the
\* specification; brief, claims and specification for QA).
C23_MissingApprovalRefused ==
    /\ []UnapprovedIsRefused
    /\ [][versions' = versions \/ ~UnapprovedStep]_vars

\* brief and claims are approved and a risk analysis exists but is not: the
\* specification and the QA validation are refused for the missing approval
C23_Witness ==
    \E m \in ActiveMatters :
        /\ AuthoritativeRows(m, "brief") # {}
        /\ AuthoritativeRows(m, "claims") # {}
        /\ VersionIds(m, "risk") # {}
        /\ AuthoritativeRows(m, "risk") = {}
        /\ generate_specification_error(m, NoId, NoId, TRUE) = "MissingApproval"
        /\ run_qa_validation_error(m, NoId, NoId, TRUE) = "MissingApproval"

\* ---------------------------------------------------------------------------
\* the response of the commit of kind k (the approval, for a brief)
commit_version_error(k, m, version_id) ==
    CASE k = "brief" -> approve_brief_error(m, version_id)
      [] k = "claims" -> commit_claims_error(m, version_id)
      [] k = "risk" -> commit_risk_error(m, version_id)
      [] k = "spec" -> commit_spec_error(m, version_id)
      [] k = "qa" -> commit_qa_error(m, version_id)

\* a commit step of matter m that names a version id which is no version of m
ForeignCommitStep ==
    \E m \in Matters :
        \/ \E v \in VersionIdInputs("brief") \ VersionIds(m, "brief") :
               approve_brief(m, v)
        \/ \E v \in VersionIdInputs("claims") \ VersionIds(m, "claims") :
               commit_claims(m, v)
        \/ \E v \in VersionIdInputs("risk") \ VersionIds(m, "risk") :
               commit_risk(m, v)
        \/ \E v \in VersionIdInputs("spec") \ VersionIds(m, "spec") :
               commit_spec(m, v)
        \/ \E v \in VersionIdInputs("qa") \ VersionIds(m, "qa") :
               commit_qa(m, v)

ForeignCommitNotFound ==
    \A m \in Matters, k \in Kinds :
        \A v \in VersionIdInputs(k) \ VersionIds(m, k) :
            commit_version_error(k, m, v) = "NotFound"

\* C24: a commit that names a version id which does not exist or belongs to
\* another matter fails with not-found and changes no flag, status, pointer or
\* audit event of any matter.
C24_ForeignCommitRefused ==
    /\ []ForeignCommitNotFound
    /\ [][UNCHANGED <<versions, status, workstreams, audit>>
            \/ ~ForeignCommitStep]_vars

\* both matters have a claim graph version and each one's id is refused when
\* committed for the other matter
C24_Witness ==
    \E m \in Matters, n \in Matters :
        /\ m # n
        /\ VersionIds(m, "claims") # {}
        /\ VersionIds(n, "claims") # {}
        /\ \A v \in VersionIds(n, "claims") :
               commit_claims_error(m, v) = "NotFound"

\* ---------------------------------------------------------------------------
\* C25: the writes of one commit or lock operation are applied together: no
\* reachable state, also none observed by a concurrent request, has the
\* status write of a lock applied and its MATTER_LOCKED event not.
C25_LockWritesAppliedTogether ==
    \A m \in Matters :
        (\E r \in Requests : /\ inflight[r].op = "lock_for_export"
                             /\ inflight[r].matter_id = m
                             /\ status[m] = "LOCKED_FOR_EXPORT")
            => Recorded(m, {"MATTER_LOCKED"}, NoId)

\* ---------------------------------------------------------------------------
\* a successful commit of a claim graph version of matter m
ClaimsCommitStep(m) ==
    \E v \in VersionIds(m, "claims") : commit_claims(m, v)

\* a successful claim generation for matter m
ClaimsGenerationStep(m) ==
    \E b \in OptionalIdInputs("brief") :
        /\ generate_claims_error(m, b, TRUE) = "ok"
        /\ \E g \in AgentGraphs : generate_claims(m, b, TRUE, g)

\* C26: committing a ClaimGraphVersion while the matter's status is
\* BRIEF_ANALYZED transitions the matter to CLAIMS_PROPOSED.
C26_CommitFromAnalyzedProposes ==
    [][\A m \in ActiveMatters :
          (status[m] = "BRIEF_ANALYZED" /\ ClaimsCommitStep(m))
              => status'[m] = "CLAIMS_PROPOSED"]_vars

\* C26 as amended: a commit of a ClaimGraphVersion leaves a matter in
\* BRIEF_ANALYZED in that status and moves a matter in CLAIMS_PROPOSED to
\* CLAIMS_APPROVED; it is the generation of a ClaimGraphVersion that moves a
\* matter in BRIEF_ANALYZED to CLAIMS_PROPOSED.
C26_CommitApprovesGenerationProposes ==
    [][\A m \in ActiveMatters :
          /\ (status[m] = "BRIEF_ANALYZED" /\ ClaimsCommitStep(m))
                => status'[m] = "BRIEF_ANALYZED"
          /\ (status[m] = "CLAIMS_PROPOSED" /\ ClaimsCommitStep(m))
                => status'[m] = "CLAIMS_APPROVED"
          /\ (status[m] = "BRIEF_ANALYZED" /\ ClaimsGenerationStep(m))
                => status'[m] = "CLAIMS_PROPOSED"]_vars

\* a claim graph version committed while the matter was in BRIEF_ANALYZED: no
\* status after CLAIMS_PROPOSED leads back to BRIEF_ANALYZED
C26_Witness ==
    \E m \in ActiveMatters :
        /\ status[m] = "BRIEF_ANALYZED"
        /\ AuthoritativeRows(m, "claims") # {}
        /\ \E v \in VersionIds(m, "claims") :
               Recorded(m, {"CLAIMS_COMMITTED"}, v)

\* ---------------------------------------------------------------------------
\* a step that commits a brief version of matter m: the upload that saves it
\* or the approval that flags it
BriefCommitStep(m) ==
    \/ \E p \in BriefPayloads : process_brief_upload(m, TRUE, p)
    \/ \E v \in VersionIds(m, "brief") : approve_brief(m, v)

AddRequestInputs ==
    {AddClaimRequest(t, d) : t \in {"independent", "dependent"},
                             d \in DependencyInputs \cup {<<NonNumericId>>}}

UnknownDependency(nodes, request) ==
    \E i \in 1..Len(request.dependencies) :
        request.dependencies[i] \notin NodeIds(nodes)

DependentWithoutDependency(request) ==
    request.type = "dependent" /\ request.dependencies = <<>>

\* the add of a well-formed request: the nodes before it are kept, the new
\* node is last, carries the request's fields and the id after the largest
\* numeric id
AddsLast(nodes, request) ==
    LET g == add_claim_graph(nodes, request)
        new == g[Len(g)]
        numeric == NodeIds(nodes) \ {NonNumericId}
    IN /\ Len(g) = Len(nodes) + 1
       /\ SubSeq(g, 1, Len(nodes)) = nodes
       /\ new.id \notin NodeIds(nodes)
       /\ new.id # NonNumericId
       /\ \A i \in numeric : i < new.id
       /\ IF numeric = {} THEN new.id = 1 ELSE new.id - 1 \in numeric
       /\ new.type = request.type
       /\ new.text = request.text
       /\ new.category = request.category
       /\ new.dependencies = request.dependencies

AddAnswers ==
    LET orders == Orders(NodeIds(graph_data) \cup {next_id(graph_data)})
    IN \A r \in AddRequestInputs :
           IF UnknownDependency(graph_data, r)
           THEN \A order \in orders :
                    add_claim_validation(graph_data, r, order) = "UnknownDependency"
           ELSE IF DependentWithoutDependency(r)
           THEN \A order \in orders :
                    add_claim_validation(graph_data, r, order)
                        = "DependentRequiresDependency"
           ELSE AddsLast(graph_data, r)

\* C28: a successful add gives the new node the id max(numeric ids) + 1 (1
\* when no id is numeric; non-numeric ids are ignored), which is the id of no
\* existing node, and appends it last; an add that lists a dependency absent
\* from the graph, or is of type dependent with no dependency, fails and adds
\* nothing.
C28_AddAssignsNextId ==
    /\ []AddAnswers
    /\ [][UNCHANGED graph_data
            \/ \A r \in AddRequestInputs :
                   (UnknownDependency(graph_data, r) \/ DependentWithoutDependency(r))
                       => (\/ graph_data' # add_claim_graph(graph_data, r)
                           \/ ~add_claim_nodes(r))]_vars

\* a node was added to a graph whose only other id is not numeric: it got the
\* id 1; and the next one the id 2
C28_Witness ==
    /\ Len(graph_data) = 3
    /\ graph_data[1].id = NonNumericId
    /\ graph_data[2].id = 1
    /\ graph_data[3].id = 2
    /\ graph_data[3].dependencies = <<NonNumericId>>

\* ---------------------------------------------------------------------------
\* the edit patches tried on every node id: none that sets no field, and one
\* for each list of dependencies
EditPatchInputs ==
    {EditClaimRequest({}, "independent", <<>>)}
        \cup {EditClaimRequest({"dependencies"}, "dependent", d) :
                 d \in DependencyInputs}

PatchedDependencies(patch) ==
    IF "dependencies" \in patch.fields_set
    THEN {patch.dependencies[i] : i \in 1..Len(patch.dependencies)}
    ELSE {}

\* the four ways in which the claim says an edit is malformed
Malformed(nodes, node_id, patch) ==
    \/ node_id \notin NodeIds(nodes)
    \/ patch.fields_set = {}
    \/ PatchedDependencies(patch) \ NodeIds(nodes) # {}
    \/ node_id \in PatchedDependencies(patch)

\* the errors that answer a malformed edit of the graph `nodes`
MalformedErrors(nodes, node_id, patch) ==
    IF node_id \notin NodeIds(nodes) THEN {"NodeNotFound"}
    ELSE IF patch.fields_set = {} THEN {"NoChange"}
    ELSE (IF PatchedDependencies(patch) \ NodeIds(nodes) # {}
          THEN {"UnknownDependency"} ELSE {})
         \cup (IF node_id \in PatchedDependencies(patch)
               THEN {"SelfDependency"} ELSE {})

EditAnswers ==
    LET orders == Orders(NodeIds(graph_data))
    IN \A n \in IdInputs, patch \in EditPatchInputs :
           LET errors == MalformedErrors(graph_data, n, patch)
           IN Malformed(graph_data, n, patch)
                  => \A order \in orders :
                         edit_claim_validation(graph_data, n, patch, order) \in errors

EditRequestAnswers ==
    \A m \in ActiveMatters : \A v \in VersionIds(m, "claims") :
        LET source == SourceGraph(m, v)
            orders == Orders(NodeIds(source))
        IN require_editable_matter_error(m) = "ok"
               => \A n \in IdInputs, patch \in EditPatchInputs :
                      LET errors == MalformedErrors(source, n, patch)
                      IN Malformed(source, n, patch)
                             => \A order \in orders :
                                    edit_claim_error(m, v, n, patch, order) \in errors

\* C29: an edit is answered with an error, under every iteration order of
\* the check, and changes no version, status, pointer or audit event, when
\* the node id is absent from the graph,
\* when the patch sets no field, when a patched dependency is not in the
\* graph, and when a patched dependency is the node's own id.
C29_MalformedEditRejected ==
    /\ []EditAnswers
    /\ []EditRequestAnswers
    /\ [][UNCHANGED <<versions, status, workstreams, audit>>
            \/ \A m \in ActiveMatters : \A v \in VersionIds(m, "claims") :
                   \A n \in IdInputs, patch \in EditPatchInputs :
                      Malformed(SourceGraph(m, v), n, patch)
                          => \A order \in Orders(NodeIds(SourceGraph(m, v))) :
                                 ~edit_claim(m, v, n, patch, order)]_vars

\* a graph of two nodes reached by a delete, and the four malformed edits of
\* it with their answers
C29_Witness ==
    /\ NodeIds(graph_data) = {1, 2}
    /\ \E g \in SourceGraphs : \E k \in NodeIds(g) :
           Len(g) = 3 /\ graph_data = delete_claim_graph(g, k)
    /\ edit_claim_validation(graph_data, 3,
           EditClaimRequest({"dependencies"}, "dependent", <<1>>), <<1, 2>>)
           = "NodeNotFound"
    /\ edit_claim_validation(graph_data, 1,
           EditClaimRequest({}, "independent", <<>>), <<1, 2>>) = "NoChange"
    /\ edit_claim_validation(graph_data, 1,
           EditClaimRequest({"dependencies"}, "dependent", <<3>>), <<1, 2>>)
           = "UnknownDependency"
    /\ edit_claim_validation(graph_data, 1,
           EditClaimRequest({"dependencies"}, "dependent", <<1>>), <<1, 2>>)
           = "SelfDependency"

\* ---------------------------------------------------------------------------
\* every dependency is the id of a node of the graph
DependenciesPresent(nodes) ==
    \A i \in 1..Len(nodes) : \A x \in 1..Len(nodes[i].dependencies) :
        nodes[i].dependencies[x] \in NodeIds(nodes)

\* no node lists its own id
NoSelfDependency(nodes) ==
    \A i \in 1..Len(nodes) : \A x \in 1..Len(nodes[i].dependencies) :
        nodes[i].dependencies[x] # nodes[i].id

ExportableReports(m) ==
    {v \in VersionIds(m, "qa") : can_export(versions["qa"][v].payload)}

\* such a commit is accepted where the table has QA_COMPLETE as successor
QACommitAccepted ==
    \A m \in ActiveMatters : \A v \in ExportableReports(m) :
        status[m] \in {"SPEC_GENERATED", "RISK_RE_REVIEWED"}
            => commit_qa_error(m, v) = "ok"

\* C33: the commit of an exportable QA report while the matter's status is
\* SPEC_GENERATED or RISK_RE_REVIEWED succeeds and leaves the matter in
\* QA_COMPLETE.
C33_QACommitCompletes ==
    /\ []QACommitAccepted
    /\ [][\A m \in ActiveMatters : \A v \in ExportableReports(m) :
              (/\ status[m] \in {"SPEC_GENERATED", "RISK_RE_REVIEWED"}
               /\ commit_qa_error(m, v) = "ok"
               /\ commit_qa(m, v))
                  => status'[m] = "QA_COMPLETE"]_vars

\* ---------------------------------------------------------------------------
\* The review of a drafted specification.  The matter has its brief uploaded
\* and approved, its claims generated and committed, a risk analysis and a
\* specification generated from them by id; the handlers that follow are the
\* brief handlers, the manual transition, the two risk generations, the risk
\* commit, the QA run and the QA commit, none of which writes an audit event.
ReviewedVersion(m, authoritative, payload, cv, rv) ==
    [matter_id |-> m, version_number |-> 1, is_authoritative |-> authoritative,
     payload |-> payload, claim_version_id |-> cv, risk_version_id |-> rv,
     spec_version_id |-> NoId]

ReviewInit ==
    /\ status = [m \in Matters |->
                    IF m \in ActiveMatters THEN "CLAIMS_APPROVED" ELSE "CREATED"]
    /\ \E m \in ActiveMatters :
           /\ defensibility_score =
                  [x \in Matters |->
                      IF x = m THEN (CHOOSE p \in RiskPayloads : TRUE).defensibility_score
                      ELSE 0]
           /\ versions =
                  [k \in Kinds |->
                      CASE k = "brief" ->
                               <<ReviewedVersion(m, TRUE, CHOOSE p \in BriefPayloads : TRUE,
                                                 NoId, NoId)>>
                        [] k = "claims" ->
                               <<ReviewedVersion(m, TRUE, CHOOSE g \in AgentGraphs : TRUE,
                                                 NoId, NoId)>>
                        [] k = "risk" ->
                               <<ReviewedVersion(m, FALSE, CHOOSE p \in RiskPayloads : TRUE,
                                                 1, NoId)>>
                        [] k = "spec" ->
                               <<ReviewedVersion(m, FALSE, CHOOSE p \in SpecPayloads : TRUE,
                                                 1, 1)>>
                        [] OTHER -> <<>>]
           /\ workstreams =
                  <<[matter_id |-> m,
                     active |-> [k \in Kinds |->
                                    IF k = "qa" THEN NoRef ELSE VersionRef(k, 1)]]>>
           /\ audit = <<AuditEvent(m, "CLAIMS_GENERATED", 1),
                        AuditEvent(m, "CLAIMS_COMMITTED", 1),
                        AuditEvent(m, "SPEC_GENERATED", 1)>>
    /\ inflight = [r \in Requests |-> Idle]
    /\ graph_data = <<>>

ReviewNext ==
    \/ \E m \in ActiveMatters, ok \in BOOLEAN :
           \E p \in AgentOutputs(ok, BriefPayloads) : process_brief_upload(m, ok, p)
    \/ \E m \in ActiveMatters, v \in VersionIdInputs("brief") : approve_brief(m, v)
    \/ \E m \in ActiveMatters, s \in StatusNames : update_status(m, s)
    \/ \E m \in ActiveMatters, c \in OptionalIdInputs("claims"), ok \in BOOLEAN :
           \E a \in AgentOutputs(ok, RiskPayloads) :
           generate_risk_analysis(m, c, ok, a)
    \/ \E m \in ActiveMatters, sv \in OptionalIdInputs("spec"), ok \in BOOLEAN :
           \E a \in AgentOutputs(ok, RiskPayloads) :
           re_evaluate_risk_post_spec(m, sv, ok, a)
    \/ \E m \in ActiveMatters, v \in VersionIdInputs("risk") : commit_risk(m, v)
    \/ \E m \in ActiveMatters, c \in OptionalIdInputs("claims"),
          sv \in OptionalIdInputs("spec"), ok \in BOOLEAN :
           \E q \in AgentOutputs(ok, QAPayloads) :
           run_qa_validation(m, c, sv, ok, q)
    \/ \E m \in ActiveMatters, v \in VersionIdInputs("qa") : commit_qa(m, v)

ReviewSpec == ReviewInit /\ [][ReviewNext]_vars

\* the risk versions of matter m that the re-evaluation produced: the ones
\* that reference a spec version
ReEvaluations(m) ==
    {v \in VersionIds(m, "risk") : versions["risk"][v].spec_version_id # NoId}

\* the commit of a re-evaluation is accepted in SPEC_GENERATED
ReEvaluationCommitAccepted ==
    \A m \in ActiveMatters : \A v \in ReEvaluations(m) :
        status[m] = "SPEC_GENERATED" => commit_risk_error(m, v) = "ok"

ManualPipelineNext ==
    \/ PipelineNext
    \/ \E m \in ActiveMatters, s \in StatusNames : update_status(m, s)

ManualPipelineSpec == Init /\ [][ManualPipelineNext]_vars

\* the statuses the commit of kind k assigns a new status from
TransitionsFrom(k) ==
    CASE k = "claims" -> {"CLAIMS_PROPOSED"}
      [] k = "risk" -> {"CLAIMS_APPROVED", "SPEC_GENERATED"}
      [] k = "spec" -> {"RISK_REVIEWED"}

\* the commit of version v of kind k of matter m
commit_version(k, m, v) ==
    CASE k = "claims" -> commit_claims(m, v)
      [] k = "risk" -> commit_risk(m, v)
      [] k = "spec" -> commit_spec(m, v)

\* a commit in a status it does not transition from is accepted
PastCommitAccepted ==
    \A m \in ActiveMatters, k \in {"claims", "risk", "spec"} :
        status[m] \notin TransitionsFrom(k)
            => \A v \in VersionIds(m, k) : commit_version_error(k, m, v) = "ok"

C36_LockedHasExportableReport ==
    \A m \in Matters :
        status[m] = "LOCKED_FOR_EXPORT"
            => \E v \in ExportableReports(m) : versions["qa"][v].is_authoritative

\* ---------------------------------------------------------------------------
\* what generate_docx fetches for matter m: for the brief, the claims and the
\* spec, the rows _get_authoritative may return
ExportReads(m) ==
    [k \in {"brief", "claims", "spec"} |-> AuthoritativeRows(m, k)]

\* C37: once a matter is LOCKED_FOR_EXPORT no operation changes which brief,
\* claims or spec version an export reads as the latest authoritative one.
C37_LockedExportInputsFrozen ==
    [][\A m \in Matters :
           status[m] = "LOCKED_FOR_EXPORT" => ExportReads(m)' = ExportReads(m)]_vars

\* ---------------------------------------------------------------------------
\* the statuses the two edit guards name
ClaimEditStatuses == {"CLAIMS_PROPOSED", "CLAIMS_APPROVED"}
SpecEditStatuses == {"RISK_REVIEWED", "SPEC_GENERATED", "RISK_RE_REVIEWED"}

\* a claim edit, add or delete request for matter m
ClaimEditStep(m) ==
    \E v \in VersionIdInputs("claims") :
        \/ \E x \in EditClaimInputs(m, v) :
               edit_claim(m, v, x.node_id, x.patch, x.order)
        \/ \E x \in AddClaimInputs(m, v) : add_claim(m, v, x.request, x.order)
        \/ \E n \in NodeIdInputs(SourceGraph(m, v)) : delete_claim(m, v, n)

\* a spec paragraph request for matter m
SpecEditStep(m) ==
    \E v \in VersionIdInputs("spec"), d \in SpecPayloads : edit_spec(m, v, d)

\* outside the statuses of its guard every edit request is answered with an
\* error: the claim requests with the guard's own, whatever their body
EditsRefused ==
    \A m \in ActiveMatters :
        /\ status[m] \notin ClaimEditStatuses
               => \A v \in VersionIdInputs("claims") :
                      /\ \A x \in EditClaimInputs(m, v) :
                             edit_claim_error(m, v, x.node_id, x.patch, x.order)
                                 = "NotEditable"
                      /\ \A x \in AddClaimInputs(m, v) :
                             add_claim_error(m, v, x.request, x.order) = "NotEditable"
                      /\ \A n \in NodeIdInputs(SourceGraph(m, v)) :
                             delete_claim_error(m, v, n) = "NotEditable"
        /\ status[m] \notin SpecEditStatuses
               => \A v \in VersionIdInputs("spec") : edit_spec_error(m, v) # "ok"

C39_ExportFollowsLock ==
    /\ \A i \in 1..Len(audit) :
           audit[i].event_type = "EXPORT_GENERATED"
               => /\ status[audit[i].matter_id] = "LOCKED_FOR_EXPORT"
                  /\ \E j \in 1..(i - 1) :
                         /\ audit[j].event_type = "MATTER_LOCKED"
                         /\ audit[j].matter_id = audit[i].matter_id

\* ---------------------------------------------------------------------------
\* The way to the export without the manual status endpoint.  A matter is new,
\* or it is drafted: brief uploaded and approved, claims generated and
\* committed, risk analysis generated and committed, specification generated
\* and committed, each by its handler with no version id given, which leaves it
\* in SPEC_GENERATED.
DraftedInit ==
    /\ status = [m \in Matters |->
                    IF m \in ActiveMatters THEN "SPEC_GENERATED" ELSE "CREATED"]
    /\ \E m \in ActiveMatters :
           /\ defensibility_score =
                  [x \in Matters |->
                      IF x = m THEN (CHOOSE p \in RiskPayloads : TRUE).defensibility_score
                      ELSE 0]
           /\ versions =
                  [k \in Kinds |->
                      CASE k = "brief" ->
                               <<ReviewedVersion(m, TRUE, CHOOSE p \in BriefPayloads : TRUE,
                                                 NoId, NoId)>>
                        [] k = "claims" ->
                               <<ReviewedVersion(m, TRUE, CHOOSE g \in AgentGraphs : TRUE,
                                                 NoId, NoId)>>
                        [] k = "risk" ->
                               <<ReviewedVersion(m, TRUE, CHOOSE p \in RiskPayloads : TRUE,
                                                 1, NoId)>>
                        [] k = "spec" ->
                               <<ReviewedVersion(m, TRUE, CHOOSE p \in SpecPayloads : TRUE,
                                                 1, 1)>>
                        [] OTHER -> <<>>]
           /\ workstreams =
                  <<[matter_id |-> m,
                     active |-> [k \in Kinds |->
                                    IF k = "qa" THEN NoRef ELSE VersionRef(k, 1)]]>>
           /\ audit = <<AuditEvent(m, "CLAIMS_GENERATED", 1),
                        AuditEvent(m, "CLAIMS_COMMITTED", 1),
                        AuditEvent(m, "SPEC_GENERATED", 1),
                        AuditEvent(m, "SPEC_COMMITTED", 1)>>
    /\ inflight = [r \in Requests |-> Idle]
    /\ graph_data = <<>>

ExportPathNext ==
    \/ PipelineNext
    \/ \E m \in ActiveMatters : lock_for_export(m)
    \/ \E m \in ActiveMatters : generate_docx(m)

ExportPathSpec == (Init \/ DraftedInit) /\ [][ExportPathNext]_vars

\* The operation that the lifecycle prescribes at the status of m is accepted
\* when its agent succeeds: upload for a new matter, approval of the brief and
\* generation of claims after it, and then, the brief being approved, the
\* commit of claims, risk analysis and specification, the commit of an
\* exportable QA report, and the lock.
Approved(m) == AuthoritativeRows(m, "brief") # {}

PrescribedOperationAccepted(m) ==
    /\ status[m] = "CREATED" => process_brief_upload_error(m, TRUE) = "ok"
    /\ status[m] = "BRIEF_ANALYZED" =>
           /\ \A v \in VersionIds(m, "brief") : approve_brief_error(m, v) = "ok"
           /\ Approved(m) => generate_claims_error(m, NoId, TRUE) = "ok"
    /\ status[m] = "CLAIMS_PROPOSED" =>
           \A v \in VersionIds(m, "claims") : commit_claims_error(m, v) = "ok"
    /\ status[m] = "CLAIMS_APPROVED" =>
           /\ generate_risk_analysis_error(m, NoId, TRUE) = "ok"
           /\ \A v \in VersionIds(m, "risk") : commit_risk_error(m, v) = "ok"
    /\ (status[m] = "RISK_REVIEWED" /\ Approved(m)) =>
           /\ generate_specification_error(m, NoId, NoId, TRUE) = "ok"
           /\ \A v \in VersionIds(m, "spec") : commit_spec_error(m, v) = "ok"
    /\ (status[m] = "SPEC_GENERATED" /\ Approved(m)) =>
           /\ run_qa_validation_error(m, NoId, NoId, TRUE) = "ok"
           /\ \A v \in ExportableReports(m) : commit_qa_error(m, v) = "ok"
    /\ status[m] = "QA_COMPLETE" => lock_for_export_error(m) = "ok"

\* C40: a matter that starts in CREATED can be brought to LOCKED_FOR_EXPORT by
\* brief upload and approval, generation, commit and lock operations alone
\* when every agent call succeeds and the QA report is exportable: without the
\* manual status endpoint, at every status short of LOCKED_FOR_EXPORT the
\* operation prescribed there is accepted.
C40_LockReachableWithoutManualEndpoint ==
    \A m \in ActiveMatters :
        status[m] # "LOCKED_FOR_EXPORT" => PrescribedOperationAccepted(m)

\* ---------------------------------------------------------------------------
\* The graphs edit_claim and add_claim hand to the cycle check, for the graph
\* at hand: the graph with the dependencies of one of its nodes replaced, and
\* the graph with a node added.
CheckedGraphs ==
    {edit_claim_graph(graph_data, n,
                      EditClaimRequest({"dependencies"}, "dependent", d)) :
         n \in NodeIds(graph_data), d \in DependencyInputs}
    \cup (IF Len(graph_data) < MaxNodes
          THEN {add_claim_graph(graph_data, AddClaimRequest("dependent", d)) :
                    d \in DependencyInputs}
          ELSE {})

\* the two operations that run the cycle check, applied to source graphs of
\* either sort
CycleCheckedNext ==
    \/ \E n \in IdInputs, d \in DependencyInputs :
           edit_claim_nodes(n, EditClaimRequest({"dependencies"}, "dependent", d))
    \/ \E d \in DependencyInputs \cup {<<NonNumericId>>} :
           add_claim_nodes(AddClaimRequest("dependent", d))

CycleCheckedSpec ==
    GraphInitFrom(SourceGraphs \cup SelfDependentGraphs) /\ [][CycleCheckedNext]_vars

\* no two nodes of the graph have the same id
UniqueIds(nodes) ==
    \A i, j \in 1..Len(nodes) : nodes[i].id = nodes[j].id => i = j

Commits(r) == inflight[r].pc # "idle" /\ inflight'[r].pc = "idle"

\* the kind of version a version-creating request inserts
CreatedKind(r) ==
    IF inflight[r].op = "process_brief_upload" THEN "brief" ELSE "claims"

\* C31: two requests on the same matter that overlap leave the state one of
\* their two serial orders leaves: the order of their commits.  A request that
\* creates a version commits the row the operation run alone at that moment
\* would commit, numbered one past the latest number of its matter, and the
\* matter has one workstream afterwards.
C31_CommitOrderIsSerialOrder ==
    [][\A r \in Requests, m \in Matters :
           (/\ Commits(r)
            /\ inflight[r].matter_id = m
            /\ inflight[r].op \in {"process_brief_upload", "generate_claims"})
               => LET k == CreatedKind(r)
                      rows == versions'[k]
                  IN /\ rows[Len(rows)].version_number = NextVersionNumber(m, k)
                     /\ Cardinality(WorkstreamRows(m)') = 1]_vars

============================================================================
